---- MODULE Spec2Model ----
(***************************************************************************)
(* A model of the HugeCTR Triton backend (src/src/hugectr.cc):            *)
(*   - HugeCTRBuffer<T>: reserve / allocate / destructor                   *)
(*   - ModelInstanceState: the buffer set built by the constructor         *)
(*   - TRITONBACKEND_ModelInstanceExecute: the per-request pipeline        *)
(* Several specifications share the module: SpecBuffer drives one         *)
(* HugeCTRBuffer through arbitrary call sequences, Spec runs one Execute   *)
(* call over a batch of requests on a constructed instance; the others     *)
(* are introduced where they are defined.                                  *)
(***************************************************************************)
EXTENDS Integers, Sequences, FiniteSets, TLC

VARIABLES
    \* ---- HugeCTRBuffer under test (SpecBuffer) ----
    hbuf,       \* the HugeCTRBuffer object: its fields, and sizeof(T)
    heap,       \* CudaAllocator: acquisitions and releases done so far
    calls,      \* history: the calls made on hbuf so far
    \* ---- one Execute call (Spec) ----
    model_state,     \* ModelState fields read by Execute and the constructor
    instance_state,  \* ModelInstanceState: the buffers and what they hold
    pc,              \* position of Execute
    r,               \* index of the request being processed (0-based)
    responses,       \* std::vector<TRITONBACKEND_Response*> responses
    cur,             \* locals of the loop body for request r, and its history
    fin,             \* history: what happened to the requests already left
    host             \* history: calls Execute made on the host so far

bufvars  == <<hbuf, heap, calls>>
execvars == <<model_state, instance_state, pc, r, responses, cur, fin, host>>
vars     == <<hbuf, heap, calls, model_state, instance_state, pc, r,
              responses, cur, fin, host>>

NoValue == "none"

(***************************************************************************)
(* Bounds of the model.                                                    *)
(***************************************************************************)
MaxReserves  == 2   \* reserve() calls made on one buffer
MaxAllocates == 2   \* allocate() calls made on one buffer
MaxDims      == 2   \* length of a dimensions vector
MaxExtent    == 2   \* largest extent in a dimensions vector
MaxRequests     == 2   \* request_count of one Execute call
MaxBatchSize    == 2   \* largest max_batch_size of a model configuration
MaxInputBuffers == 2   \* largest input_buffer_count the host reports
MaxRank == 3   \* length of a vector given to get_num_elements_from_dimensions
MaxDim  == 3   \* largest extent in such a vector
MaxFeatures == 3   \* largest dense / categorical / slot count of a model
MaxStringLen == 2   \* length of a parameter's string_value
MaxModels == 2   \* models the host loads in one process
MaxInstances == 2   \* model instances the host initializes in one process
MaxElements == 9   \* elements of a categorical or row-offset input of a request
MaxClock == 3   \* latest reading of the clock during one Execute call
MaxEntries == 3   \* entries of the backend's command line

(***************************************************************************)
(* HugeCTRBuffer<T>                                                        *)
(***************************************************************************)
nullptr == 0

\* sizeof(T) of the instantiations the backend uses: float, unsigned int and
\* int are 4 bytes, long long is 8.
ElemSizes == {4, 8}

\* total_num_elements_ has no initializer: its first value is indeterminate.
Indeterminate == {0, 5}

\* HugeCTRBuffer(MEMORY_TYPE): ptr_(nullptr), total_size_in_bytes_(0).
HugeCTRBuffer(sizeofT, garbage) ==
    [ reserved_buffers_    |-> << >>,
      total_num_elements_  |-> garbage,
      ptr_                 |-> nullptr,
      total_size_in_bytes_ |-> 0,
      sizeofT              |-> sizeofT ]

allocated(buf) == buf.total_size_in_bytes_ # 0 /\ buf.ptr_ # nullptr

get_buffer_size(buf) == buf.total_size_in_bytes_

get_ptr(buf) == buf.ptr_

\* Mutant of get_num_elements_from_dimensions: the extents are counted, not
\* multiplied.
get_num_elements_from_dimensions_Count(dimensions) == Len(dimensions)

RECURSIVE get_num_elements_from_dimensions(_)
get_num_elements_from_dimensions(dimensions) ==
    IF dimensions = << >> THEN 1
    ELSE Head(dimensions) * get_num_elements_from_dimensions(Tail(dimensions))

\* reserve(): the allocated() test only writes to std::cerr, the body runs
\* in either case.
reserve(buf, dimensions) ==
    LET num_elements  == get_num_elements_from_dimensions(dimensions)
        size_in_bytes == num_elements * buf.sizeofT
    IN  [buf EXCEPT !.reserved_buffers_   = Append(@, size_in_bytes),
                    !.total_num_elements_ = @ + num_elements]

\* Mutant of PadTo32: the reservation is not rounded up.
PadTo32_NoRounding(size) == size

\* The loop body of allocate(): one reservation rounded to the 32-byte stride.
PadTo32(size) == IF (size % 32) # 0 THEN size + (32 - (size % 32)) ELSE size

RECURSIVE AllocateOffset(_)
AllocateOffset(reserved) ==
    IF reserved = << >> THEN 0
    ELSE PadTo32(Head(reserved)) + AllocateOffset(Tail(reserved))

\* allocate() up to the acquisition: the ptr_ != nullptr test only writes to
\* std::cerr, the body runs in either case.
allocate_sizes(buf) ==
    [buf EXCEPT !.reserved_buffers_    = << >>,
                !.total_size_in_bytes_ = AllocateOffset(buf.reserved_buffers_)]

\* allocate(), the acquisition returning newptr.
allocate(buf, newptr) ==
    LET sized == allocate_sizes(buf)
    IN  IF sized.total_size_in_bytes_ # 0
        THEN [sized EXCEPT !.ptr_ = newptr]
        ELSE sized

(***************************************************************************)
(* SpecBuffer: any sequence of reserve / allocate calls on one buffer,     *)
(* ended by its destructor.                                                *)
(***************************************************************************)
Dimensions ==
    UNION { [1..n -> 0..MaxExtent] : n \in 0..MaxDims }

NoExec ==
    /\ model_state = NoValue
    /\ instance_state = NoValue
    /\ pc = NoValue
    /\ r = 0
    /\ responses = << >>
    /\ cur = NoValue
    /\ fin = << >>
    /\ host = NoValue

InitBuffer ==
    /\ \E s \in ElemSizes, g \in Indeterminate : hbuf = HugeCTRBuffer(s, g)
    /\ heap = [acquired |-> 0, released |-> {}, state |-> "live"]
    /\ calls = [reserved |-> << >>, allocates |-> 0, reservesAfter |-> 0,
                firstCapacity |-> -1]   \* -1: no allocate() yet
    /\ NoExec

\* buf->reserve(dimensions)
Reserve ==
    /\ heap.state = "live"
    /\ Len(calls.reserved) < MaxReserves
    /\ \E dimensions \in Dimensions :
         /\ hbuf' = reserve(hbuf, dimensions)
         /\ calls' = [calls EXCEPT
               !.reserved = Append(@, get_num_elements_from_dimensions(dimensions)
                                        * hbuf.sizeofT),
               !.reservesAfter = IF calls.allocates > 0 THEN @ + 1 ELSE @]
    /\ UNCHANGED <<heap>>
    /\ UNCHANGED execvars

\* buf->allocate(), cudaMalloc / cudaMallocHost succeeding when it is called
Allocate ==
    /\ heap.state = "live"
    /\ calls.allocates < MaxAllocates
    /\ hbuf' = allocate(hbuf, heap.acquired + 1)
    /\ heap' = IF allocate_sizes(hbuf).total_size_in_bytes_ # 0
               THEN [heap EXCEPT !.acquired = @ + 1]
               ELSE heap
    /\ calls' = [calls EXCEPT
          !.allocates = @ + 1,
          !.firstCapacity = IF calls.allocates = 0
                            THEN get_buffer_size(hbuf') ELSE @]
    /\ UNCHANGED execvars

\* buf->allocate(), cudaMalloc / cudaMallocHost failing: CK_CUDA_THROW_ throws
\* after total_size_in_bytes_ was written, ptr_ keeps its value.
AllocateThrows ==
    /\ heap.state = "live"
    /\ calls.allocates < MaxAllocates
    /\ allocate_sizes(hbuf).total_size_in_bytes_ # 0
    /\ hbuf' = allocate_sizes(hbuf)
    /\ heap' = [heap EXCEPT !.state = "threw"]
    /\ calls' = [calls EXCEPT
          !.allocates = @ + 1,
          !.firstCapacity = IF calls.allocates = 0
                            THEN get_buffer_size(hbuf') ELSE @]
    /\ UNCHANGED execvars

\* ~HugeCTRBuffer(): deallocate(ptr_) only if allocated()
Destroy ==
    /\ heap.state \in {"live", "threw"}
    /\ heap' = [heap EXCEPT
          !.state = "destroyed",
          !.released = IF allocated(hbuf) THEN @ \cup {hbuf.ptr_} ELSE @]
    /\ UNCHANGED <<hbuf, calls>>
    /\ UNCHANGED execvars

NextBuffer == Reserve \/ Allocate \/ AllocateThrows \/ Destroy

SpecBuffer == InitBuffer /\ [][NextBuffer]_vars

(***************************************************************************)
(* ModelState and ModelInstanceState                                       *)
(***************************************************************************)
\* The ModelState fields the constructor and Execute read (BatchSize(),
\* DeseNum(), CatNum(), SlotNum(), SupportLongEmbeddingKey()).
ModelStates ==
    [ max_batch_size_    : 1..MaxBatchSize,
      dese_num_          : {2},
      cat_num_           : {2},
      slot_num_          : {2},
      support_int64_key_ : BOOLEAN ]

\* What a buffer that predict has never written holds: scores of no request.
NoScores == [dense |-> 0, cat |-> 0, row |-> 0, n |-> -1]

\* Mutant of SupportLongEmbeddingKey: the key width is taken as 32-bit always.
SupportLongEmbeddingKey_Always32(ms) == FALSE

\* ModelState::SupportLongEmbeddingKey()
SupportLongEmbeddingKey(ms) == ms.support_int64_key_

\* Mutant of CreateBuffer: allocate() is not called.
CreateBuffer_ReserveOnly(sizeofT, elements, ptr) ==
    reserve(HugeCTRBuffer(sizeofT, 0), <<elements>>)

\* create(), reserve({elements}), allocate() as the constructor does for each
\* of its buffers; ptr is the address the acquisition returns.
CreateBuffer(sizeofT, elements, ptr) ==
    allocate(reserve(HugeCTRBuffer(sizeofT, 0), <<elements>>), ptr)

\* ModelInstanceState::ModelInstanceState: the four buffers. A shared_ptr
\* that is never assigned stays null (NoValue). data: whose bytes each
\* buffer holds (a request index, 0 for none), which categorical buffer the
\* last copy went into and which one predict was last given.
ModelInstanceState(ms) ==
    [ dense_value_buf |->
          CreateBuffer(4, ms.max_batch_size_ * ms.dese_num_, 1),
      cat_column_index_buf_int64 |->
          IF SupportLongEmbeddingKey(ms)
          THEN CreateBuffer(8, ms.max_batch_size_ * ms.cat_num_, 2)
          ELSE NoValue,
      cat_column_index_buf_int32 |->
          IF SupportLongEmbeddingKey(ms)
          THEN NoValue
          ELSE CreateBuffer(4, ms.max_batch_size_ * ms.cat_num_, 2),
      row_ptr_buf |->
          CreateBuffer(4, ms.max_batch_size_ * ms.slot_num_ + 1, 3),
      prediction_buf |->
          CreateBuffer(4, ms.max_batch_size_, 4),
      data |-> [dense |-> 0, cat |-> 0, row |-> 0, cat_variant |-> NoValue,
                predict_variant |-> NoValue,
                prediction |-> NoScores] ]

\* Mutant of ProcessRequest: predict is given the 32-bit buffer always.
ProcessRequest_Always32(ms) == "int32"

\* ModelInstanceState::ProcessRequest (l.829-837): the categorical buffer
\* whose pointer is passed to predict.
ProcessRequest(ms) ==
    IF SupportLongEmbeddingKey(ms) THEN "int64" ELSE "int32"

(***************************************************************************)
(* TRITONBACKEND_ModelInstanceExecute                                      *)
(*                                                                         *)
(* Requests are numbered 1..request_count (the code's r + 1). The host's   *)
(* answers (a call failing, the request's properties) are drawn when the   *)
(* call is made. A cudaMemcpy either returns or makes CK_CUDA_THROW_ throw *)
(* out of Execute.                                                         *)
(***************************************************************************)
\* Mutant of GUARDED_RESPOND_IF_ERROR: the slot is not cleared after the
\* error response was sent.
GUARDED_RESPOND_IF_ERROR_KeepsSlot(resps, idx, err) == resps

\* GUARDED_RESPOND_IF_ERROR(RESPONSES, IDX, X), the responses vector after
\* it: err is the value of X ("ok" for nullptr). X is evaluated and the
\* error sent only if the slot is not null.
GUARDED_RESPOND_IF_ERROR(resps, idx, err) ==
    IF resps[idx] # "nullptr" /\ err # "ok"
    THEN [resps EXCEPT ![idx] = "nullptr"]
    ELSE resps

\* Mutant of GuardedSend: the error response is dropped, not sent.
GuardedSend_Never(resps, idx, err, sent) == sent

\* GUARDED_RESPOND_IF_ERROR, the responses the host was sent after it.
GuardedSend(resps, idx, err, sent) ==
    IF resps[idx] # "nullptr" /\ err # "ok"
    THEN [sent EXCEPT ![idx] = Append(@, err)]
    ELSE sent

\* The answers a guarded host call can give: it is only made on a live slot.
HostAnswers(resps, idx, error) ==
    IF resps[idx] # "nullptr" THEN {"ok", error} ELSE {"ok"}

\* Mutant of numofsample: the element count is not divided by DeseNum().
numofsample_NotDivided(des_byte_size, ms) == des_byte_size \div 4

\* numofdes = des_byte_size / sizeof(float); numofsample = numofdes / DeseNum()
numofsample(des_byte_size, ms) == (des_byte_size \div 4) \div ms.dese_num_

\* Mutant of ExceedsBatchSize: the check is missing.
ExceedsBatchSize_Never(n, ms) == FALSE

\* numofsample > BatchSize()
ExceedsBatchSize(n, ms) == n > ms.max_batch_size_

\* Mutant of AfterContinue: break instead of continue.
AfterContinue_Break(rr, count) == "report"

\* continue (or the end of the loop body): ++r, then r < request_count
AfterContinue(rr, count) == IF rr + 1 <= count THEN "request" ELSE "report"

\* Mutant of BufferLoop: off by one, b <= input_buffer_count.
BufferLoop_OffByOne(b, count) == IF b <= count THEN "stage_des" ELSE "loopend"

\* for (b = 0; b < input_buffer_count; ++b)
BufferLoop(b, count) == IF b < count THEN "stage_des" ELSE "loopend"

\* Dense input byte sizes the host may report: no sample, one sample,
\* max_batch_size samples, the last byte before max_batch_size + 1 samples,
\* and max_batch_size + 1 samples.
DesByteSizes(ms) ==
    LET row == 4 * ms.dese_num_
    IN  {0, row, row * ms.max_batch_size_,
         row * (ms.max_batch_size_ + 1) - 1, row * (ms.max_batch_size_ + 1)}

\* The datatype InputProperties reports for the dense input "DES".
Datatypes == {"FP32"}

\* The input_buffer_count the host may report: an input without bytes may
\* come without buffers, an input with bytes has at least one.
InputBufferCounts(des_byte_size) ==
    IF des_byte_size = 0 THEN 0..MaxInputBuffers ELSE 1..MaxInputBuffers

\* The locals of the loop body for request idx, before anything was read.
NewRequest(idx) ==
    [ idx |-> idx, left |-> FALSE, read |-> FALSE,
      requested_output_count |-> 0, des_byte_size |-> 0,
      des_datatype |-> NoValue, input_buffer_count |-> 0,
      numofsample |-> -1, b |-> 0,
      host_failed |-> FALSE,
      output_shape |-> << >>, output_datatype |-> NoValue,
      output_buffer_size |-> -1, output_data |-> NoScores,
      copied_out_bytes |-> -1,
      predict_args |-> << >>,
      log |-> << >>, after_error |-> {} ]

\* What is kept of a request once the loop has left it.
Summary(c) ==
    [ read |-> c.read,
      over |-> c.read /\ c.des_byte_size >=
                  4 * model_state.dese_num_ * (model_state.max_batch_size_ + 1),
      requested |-> c.requested_output_count > 0,
      host_failed |-> c.host_failed,
      buffers |-> c.input_buffer_count > 0,
      predicted |-> c.predict_args # << >>,
      own_output |-> c.output_data =
                        [dense |-> c.idx, cat |-> c.idx, row |-> c.idx,
                         n |-> c.numofsample] ]

\* One performed step of request c: logged, and noted if the response slot
\* was already cleared when it was performed.
Step(c, name, slot) ==
    [c EXCEPT !.log = Append(@, name),
              !.after_error = IF slot = "nullptr" THEN @ \cup {name} ELSE @]

Init ==
    /\ model_state \in ModelStates
    /\ instance_state = ModelInstanceState(model_state)
    /\ pc = "start"
    /\ r = 0
    /\ responses = << >>
    /\ cur = NewRequest(0)
    /\ fin = << >>
    /\ \E n \in 1..MaxRequests :
         host = [request_count |-> n, sent |-> [i \in 1..n |-> << >>],
                 released |-> [i \in 1..n |-> 0],
                 statistics |-> [i \in 1..n |-> << >>],
                 batch_reported |-> FALSE, result |-> "running"]
    /\ hbuf = NoValue /\ heap = NoValue /\ calls = NoValue

\* Mutant of CreateResponses: the requests are released before the error
\* of TRITONBACKEND_ResponseNew is returned.
CreateResponses_ReleasesOnError ==
    /\ pc = "start"
    /\ \E failing \in 0..host.request_count :
         IF failing = 0
         THEN /\ responses' = [i \in 1..host.request_count |-> "live"]
              /\ pc' = "request"
              /\ r' = 1
              /\ host' = host
         ELSE /\ responses' = [i \in 1..(failing - 1) |-> "live"]
              /\ pc' = "returned"
              /\ r' = r
              /\ host' = [host EXCEPT
                            !.result = "error",
                            !.released = [i \in 1..host.request_count |-> 1]]
    /\ UNCHANGED <<model_state, instance_state, cur, fin>>
    /\ UNCHANGED bufvars

\* l.1179-1190: a response object per request; RETURN_IF_ERROR leaves Execute
\* at the first TRITONBACKEND_ResponseNew that fails (failing = 0: none does).
CreateResponses ==
    /\ pc = "start"
    /\ \E failing \in 0..host.request_count :
         IF failing = 0
         THEN /\ responses' = [i \in 1..host.request_count |-> "live"]
              /\ pc' = "request"
              /\ r' = 1
              /\ host' = host
         ELSE /\ responses' = [i \in 1..(failing - 1) |-> "live"]
              /\ pc' = "returned"
              /\ r' = r
              /\ host' = [host EXCEPT !.result = "error"]
    /\ UNCHANGED <<model_state, instance_state, cur, fin>>
    /\ UNCHANGED bufvars

\* continue / end of the loop body for the request whose locals are c
Leave(c) ==
    /\ cur' = [c EXCEPT !.left = TRUE]
    /\ fin' = Append(fin, Summary(c))
    /\ r' = r + 1
    /\ pc' = AfterContinue(r, host.request_count)

\* l.1211-1390: the request's id, counts, input names, inputs and input
\* properties are read with guarded host calls; if one fails the error
\* response is sent and the loop continues with the next request.
ReadRequest ==
    /\ pc = "request"
    /\ \E err \in HostAnswers(responses, r, "error:host") :
         /\ responses' = GUARDED_RESPOND_IF_ERROR(responses, r, err)
         /\ host' = [host EXCEPT !.sent = GuardedSend(responses, r, err, @)]
         /\ IF err # "ok"
            THEN Leave([NewRequest(r) EXCEPT !.host_failed = TRUE])
            ELSE \E requested \in {0, 1},
                    bytes \in DesByteSizes(model_state),
                    dt \in Datatypes :
                 \E buffers \in InputBufferCounts(bytes) :
                   /\ cur' = [NewRequest(r) EXCEPT
                                !.read = TRUE,
                                !.requested_output_count = requested,
                                !.des_byte_size = bytes,
                                !.des_datatype = dt,
                                !.input_buffer_count = buffers]
                   /\ pc' = IF requested > 0 THEN "validate" ELSE "send"
                   /\ UNCHANGED <<r, fin>>
    /\ UNCHANGED <<model_state, instance_state>>
    /\ UNCHANGED bufvars

\* The log messages of l.1328-1379 are built unguarded. After a failed
\* TRITONBACKEND_InputProperties (err is an error) they read input_shape,
\* the dims count and the datatype uninitialized; for a request that asks
\* for no output (err is "ok", requested_output_count stays 0) they append
\* the null requested_output_name to a std::string. Both are undefined
\* behaviour: Execute either goes on (ReadRequest) or the process dies
\* here, after the error response if one was due.
ReadRequestCrashes ==
    /\ pc = "request"
    /\ \E err \in HostAnswers(responses, r, "error:host") :
         /\ responses' = GUARDED_RESPOND_IF_ERROR(responses, r, err)
         /\ host' = [host EXCEPT
                       !.sent = GuardedSend(responses, r, err, @),
                       !.result = "crash"]
         /\ cur' = IF err # "ok"
                   THEN [NewRequest(r) EXCEPT !.host_failed = TRUE]
                   ELSE [NewRequest(r) EXCEPT !.read = TRUE]
    /\ pc' = "crashed"
    /\ UNCHANGED <<model_state, instance_state, r, fin>>
    /\ UNCHANGED bufvars

\* l.1405-1417: numofsample, and the error response if it exceeds BatchSize()
Validate ==
    /\ pc = "validate"
    /\ LET n   == numofsample(cur.des_byte_size, model_state)
           err == IF ExceedsBatchSize(n, model_state)
                  THEN "error:BatchOverflow" ELSE "ok"
       IN  /\ responses' = GUARDED_RESPOND_IF_ERROR(responses, r, err)
           /\ host' = [host EXCEPT !.sent = GuardedSend(responses, r, err, @)]
           /\ cur' = Step([cur EXCEPT !.numofsample = n], "validate",
                          responses[r])
    /\ pc' = "output"
    /\ UNCHANGED <<model_state, instance_state, r, fin>>
    /\ UNCHANGED bufvars

\* l.1418-1431: TRITONBACKEND_ResponseOutput with des_datatype and the shape
\* [numofsample], guarded; continue if the slot is null by now.
CreateOutput ==
    /\ pc = "output"
    /\ \E err \in HostAnswers(responses, r, "error:host") :
         LET resps == GUARDED_RESPOND_IF_ERROR(responses, r, err)
             c     == IF responses[r] # "nullptr" /\ err = "ok"
                      THEN [cur EXCEPT
                              !.output_shape = <<cur.numofsample>>,
                              !.output_datatype = cur.des_datatype]
                      ELSE [cur EXCEPT !.host_failed = @ \/ err # "ok"]
         IN  /\ responses' = resps
             /\ host' = [host EXCEPT
                           !.sent = GuardedSend(responses, r, err, @)]
             /\ IF resps[r] = "nullptr"
                THEN Leave(c)
                ELSE /\ cur' = c
                     /\ pc' = "outbuf"
                     /\ UNCHANGED <<r, fin>>
    /\ UNCHANGED <<model_state, instance_state>>
    /\ UNCHANGED bufvars

\* l.1433-1456: TRITONBACKEND_OutputBuffer, asked for
\* GetDeseBuffer()->get_buffer_size() bytes; continue if it failed.
GetOutputBuffer ==
    /\ pc = "outbuf"
    /\ \E err \in HostAnswers(responses, r, "error:host") :
         LET resps == GUARDED_RESPOND_IF_ERROR(responses, r, err)
         IN  /\ responses' = resps
             /\ host' = [host EXCEPT
                           !.sent = GuardedSend(responses, r, err, @)]
             /\ IF resps[r] = "nullptr"
                THEN Leave([cur EXCEPT !.host_failed = TRUE])
                ELSE /\ cur' = [cur EXCEPT
                                  !.output_buffer_size = get_buffer_size(
                                      instance_state.dense_value_buf),
                                  !.b = 0]
                     /\ pc' = BufferLoop(0, cur.input_buffer_count)
                     /\ UNCHANGED <<r, fin>>
    /\ UNCHANGED <<model_state, instance_state>>
    /\ UNCHANGED bufvars

\* One guarded TRITONBACKEND_InputBuffer followed by the unguarded cudaMemcpy
\* into an instance buffer (l.1462-1471, 1473-1485, 1487-1493). The copy is
\* made whether or not the slot is null; after a failed InputBuffer its
\* source is the null pointer (tag 0).
Stage(name, field, next) ==
    /\ pc = name
    /\ \E err \in HostAnswers(responses, r, "error:host") :
         /\ responses' = GUARDED_RESPOND_IF_ERROR(responses, r, err)
         /\ host' = [host EXCEPT !.sent = GuardedSend(responses, r, err, @)]
         /\ cur' = Step([cur EXCEPT !.host_failed = @ \/ err # "ok"], name,
                        responses'[r])
         /\ instance_state' =
              [instance_state EXCEPT
                 !.data[field] = IF responses'[r] # "nullptr" THEN r ELSE 0,
                 !.data.cat_variant =
                     IF field # "cat" THEN @
                     ELSE IF model_state.support_int64_key_
                          THEN "int64" ELSE "int32"]
    /\ pc' = next
    /\ UNCHANGED <<model_state, r, fin>>
    /\ UNCHANGED bufvars

StageDense == Stage("stage_des", "dense", "stage_cat")

StageCat == Stage("stage_cat", "cat", "stage_row")

StageRow == Stage("stage_row", "row", "predict")

\* A cudaMemcpy of the loop fails: CK_CUDA_THROW_ throws std::runtime_error,
\* nothing in Execute catches it.
CudaMemcpyThrows ==
    /\ pc \in {"stage_des", "stage_cat", "stage_row", "copyout"}
    /\ pc' = "threw"
    /\ host' = [host EXCEPT !.result = "exception"]
    /\ UNCHANGED <<model_state, instance_state, r, responses, cur, fin>>
    /\ UNCHANGED bufvars

\* l.1496-1506: the guarded ErrorNew does nothing (it runs only when the
\* slot is null already); ProcessRequest(numofsample) calls predict on the
\* four buffers.
Predict ==
    /\ pc = "predict"
    /\ cur' = Step([cur EXCEPT !.predict_args = Append(@, cur.numofsample)],
                   "predict", responses[r])
    /\ instance_state' =
         [instance_state EXCEPT
            !.data.predict_variant = ProcessRequest(model_state),
            !.data.prediction = [dense |-> instance_state.data.dense,
                                 cat   |-> instance_state.data.cat,
                                 row   |-> instance_state.data.row,
                                 n     |-> cur.numofsample]]
    /\ pc' = "copyout"
    /\ UNCHANGED <<model_state, r, responses, fin, host>>
    /\ UNCHANGED bufvars

\* l.1507-1508: numofsample * sizeof(float) bytes of the prediction buffer
\* are copied into output_buffer; then ++b.
CopyOut ==
    /\ pc = "copyout"
    /\ cur' = Step([cur EXCEPT
                      !.output_data = instance_state.data.prediction,
                      !.copied_out_bytes = cur.numofsample * 4,
                      !.b = @ + 1],
                   "copyout", responses[r])
    /\ pc' = BufferLoop(cur.b + 1, cur.input_buffer_count)
    /\ UNCHANGED <<model_state, instance_state, r, responses, fin, host>>
    /\ UNCHANGED bufvars

\* l.1511-1519: after the buffer loop, continue if the slot is null
LoopEnd ==
    /\ pc = "loopend"
    /\ IF responses[r] = "nullptr"
       THEN Leave(cur)
       ELSE /\ pc' = "send"
            /\ UNCHANGED <<r, cur, fin>>
    /\ UNCHANGED <<model_state, instance_state, responses, host>>
    /\ UNCHANGED bufvars

\* l.1522-1561: the response parameters, TRITONBACKEND_ResponseSend with
\* success, the request's statistics with success = true (l.1556-1560);
\* the loop goes on.
SendResponse ==
    /\ pc = "send"
    /\ host' = [host EXCEPT !.sent[r] = Append(@, "success"),
                             !.statistics[r] = Append(@, TRUE)]
    /\ Leave(cur)
    /\ UNCHANGED <<model_state, instance_state, responses>>
    /\ UNCHANGED bufvars

\* l.1572-1577: TRITONBACKEND_ModelInstanceReportBatchStatistics
ReportBatchStatistics ==
    /\ pc = "report"
    /\ host' = [host EXCEPT !.batch_reported = TRUE]
    /\ pc' = "release"
    /\ r' = 1
    /\ UNCHANGED <<model_state, instance_state, responses, cur, fin>>
    /\ UNCHANGED bufvars

\* l.1584-1603: the failure statistics of a request whose slot is null
\* (l.1590-1596), then the request is released; after the last, return
\* nullptr
ReleaseRequest ==
    /\ pc = "release"
    /\ host' = [host EXCEPT
                  !.statistics[r] = IF responses[r] = "nullptr"
                                    THEN Append(@, FALSE) ELSE @,
                  !.released[r] = @ + 1,
                  !.result = IF r + 1 <= host.request_count
                             THEN @ ELSE "success"]
    /\ r' = r + 1
    /\ pc' = IF r + 1 <= host.request_count THEN "release" ELSE "returned"
    /\ UNCHANGED <<model_state, instance_state, responses, cur, fin>>
    /\ UNCHANGED bufvars

Next ==
    \/ CreateResponses
    \/ ReadRequest
    \/ ReadRequestCrashes
    \/ Validate
    \/ CreateOutput
    \/ GetOutputBuffer
    \/ StageDense
    \/ StageCat
    \/ StageRow
    \/ CudaMemcpyThrows
    \/ Predict
    \/ CopyOut
    \/ LoopEnd
    \/ SendResponse
    \/ ReportBatchStatistics
    \/ ReleaseRequest

Spec == Init /\ [][Next]_vars

(***************************************************************************)
(* Claims about TRITONBACKEND_ModelInstanceExecute, checked under Spec.    *)
(***************************************************************************)
\* sample_count of a dense input of that many bytes: the number of whole
\* rows of dense_feature_count floats in it
SampleCount(bytes) ==
    CHOOSE n \in 0..bytes :
        /\ n * 4 * model_state.dese_num_ <= bytes
        /\ bytes < (n + 1) * 4 * model_state.dese_num_

Oversize(c) ==
    c.read /\ SampleCount(c.des_byte_size) > model_state.max_batch_size_

Rejected(i) == host.sent[i] = <<"error:BatchOverflow">>

Returned == pc = "returned" /\ host.result = "success"

C2_RejectionLeavesSiblingsAlone ==
    Returned =>
      \A i \in 1..host.request_count : Rejected(i) =>
        \A s \in (1..host.request_count) \ {i} :
          /\ s <= Len(fin)
          /\ fin[s].read /\ ~fin[s].over /\ ~fin[s].host_failed =>
               /\ host.sent[s] = <<"success">>
               /\ fin[s].requested /\ fin[s].buffers => fin[s].own_output

\* The first request was rejected, the one after it was scored on its own
\* inputs and answered with success.
C2_Witness ==
    /\ Returned
    /\ host.request_count >= 2
    /\ Rejected(1)
    /\ fin[2].read /\ ~fin[2].over /\ fin[2].requested /\ fin[2].buffers
    /\ fin[2].own_output
    /\ host.sent[2] = <<"success">>

\* The request that has just left the loop body was read, is within
\* max_batch_size, and none of its host calls failed.
ValidAndHealthy(c) ==
    c.left /\ c.read /\ ~Oversize(c) /\ ~c.host_failed

C4_ExactlyOneResponse ==
    Returned =>
      \A i \in 1..host.request_count :
        /\ Len(host.sent[i]) = 1
        /\ host.sent[i][1] \in {"success", "error:host", "error:BatchOverflow"}

\* Execute returned after one request got an error and another a success.
C4_Witness ==
    /\ Returned
    /\ \E i, j \in 1..host.request_count :
         /\ host.sent[i] = <<"success">>
         /\ host.sent[j] \in {<<"error:host">>, <<"error:BatchOverflow">>}
         /\ responses[j] = "nullptr"

PerRequestSteps == {"stage_des", "stage_cat", "stage_row", "predict", "copyout"}

\* C5: once an error response was sent for a request (its slot is null), no
\* copy into the input buffers, no predict call and no copy out of the
\* prediction buffer is performed for it.
C5_FailedSkipsRest ==
    cur.after_error \cap PerRequestSteps = {}

RECURSIVE Repeat(_, _)
Repeat(seq, times) ==
    IF times = 0 THEN << >> ELSE seq \o Repeat(seq, times - 1)

Done(c) == c.left /\ host.sent[c.idx] = <<"success">>

OnePass == <<"stage_des", "stage_cat", "stage_row", "predict", "copyout">>

\* C6 (as claimed): every request that ends in done went through validate,
\* stage (three copies), execute (one predict) and emit (one copy out)
\* exactly once each, in that order, before the response was sent.
C6_DoneWentThroughAllOnce ==
    Done(cur) => cur.log = <<"validate">> \o OnePass

\* C6 (amended): every request that asks for an output and ends in done went
\* through validate once and then, for each of its input buffers in turn,
\* through stage (three copies), execute (one predict) and emit (one copy
\* out), all before the response was sent; a request that asks for no
\* output ends in done without any of these steps.
C6_DoneWentThroughAllPerBuffer ==
    Done(cur) =>
        cur.log = IF cur.requested_output_count > 0
                  THEN <<"validate">> \o Repeat(OnePass, cur.input_buffer_count)
                  ELSE << >>

\* A request with one input buffer is done after exactly the six steps.
C6_Witness ==
    /\ Done(cur)
    /\ cur.requested_output_count > 0
    /\ cur.input_buffer_count = 1
    /\ cur.log = <<"validate">> \o OnePass

\* C25: a device memory copy that fails while one request is staged or its
\* result copied out does not take the batch down: every other request of
\* the batch still gets a response, every request is released and Execute
\* returns.
\* Violated: CK_CUDA_THROW_ throws out of Execute; the requests after the
\* failing one get no response and no request is released.
C25_CopyFailureIsContained ==
    pc = "threw" =>
        /\ \A i \in (1..host.request_count) \ {r} : host.sent[i] # << >>
        /\ \A i \in 1..host.request_count : host.released[i] = 1

\* C27: in emit the output buffer Execute asks the host for holds exactly
\* sample_count floats (sample_count x 4 bytes), and exactly sample_count
\* floats are copied from the prediction buffer into it.
\* Violated: the size asked for is the capacity of the dense input buffer.
C27_OutputHoldsSampleCountFloats ==
    cur.copied_out_bytes # -1 =>
        /\ cur.output_buffer_size = 4 * SampleCount(cur.des_byte_size)
        /\ cur.copied_out_bytes = 4 * SampleCount(cur.des_byte_size)

CatColBuffer(variant) ==
    IF variant = "int64"
    THEN instance_state.cat_column_index_buf_int64
    ELSE instance_state.cat_column_index_buf_int32

\* C34: the key-width choice is the same in every operation of an instance:
\* the categorical buffer that stage copies into and the one whose pointer
\* is passed to predict is always the variant that the constructor
\* allocated, so neither operation ever uses the variant that was not
\* created.
C34_OneVariantInEveryOperation ==
    \A variant \in {instance_state.data.cat_variant,
                     instance_state.data.predict_variant} \ {NoValue} :
        /\ variant = IF model_state.support_int64_key_
                     THEN "int64" ELSE "int32"
        /\ allocated(CatColBuffer(variant))
        /\ get_buffer_size(CatColBuffer(variant)) > 0

\* An instance of a model with 64-bit keys has staged a request into its
\* 64-bit buffer and predict was given that buffer.
C34_Witness ==
    /\ pc = "copyout"
    /\ model_state.support_int64_key_
    /\ instance_state.data.cat_variant = "int64"
    /\ instance_state.data.predict_variant = "int64"
    /\ allocated(instance_state.cat_column_index_buf_int64)

\* Execute has ended after taking ownership of the requests: it returned
\* success, or an exception or a crash ended it.
OwnedAndEnded ==
    \/ pc = "returned" /\ host.result = "success"
    \/ pc \in {"threw", "crashed"}

\* C31: Execute reports per-request statistics exactly once for every
\* request of the batch, with success = true exactly for the requests whose
\* success response was sent and success = false exactly for the requests
\* whose response slot was cleared by an error.
\* Violated: when a cudaMemcpy throws (or the unguarded logging crashes)
\* the release loop that reports the failures is never reached, and the
\* request at hand gets no statistics at all.
C31_StatisticsOncePerRequest ==
    OwnedAndEnded =>
        \A i \in 1..host.request_count :
            /\ Len(host.statistics[i]) = 1
            /\ host.statistics[i] = <<TRUE>> <=>
                   host.sent[i] = <<"success">>
            /\ host.statistics[i] = <<FALSE>> <=> responses[i] = "nullptr"

\* C32: once Execute has taken ownership of the requests, every request of
\* the batch is released exactly once, whatever its outcome, and each
\* release happens after that request's response was sent and after the
\* batch statistics were reported.
\* Violated: an exception thrown by a failed cudaMemcpy (or a crash in the
\* unguarded logging) ends Execute before the release loop.
C32_EveryRequestReleasedOnce ==
    /\ OwnedAndEnded =>
           \A i \in 1..host.request_count : host.released[i] = 1
    /\ \A i \in 1..host.request_count :
           host.released[i] > 0 =>
               host.sent[i] # << >> /\ host.batch_reported

\* C33: if creating the response object fails for any request of the
\* batch, Execute returns that error without taking ownership: no request
\* is staged, predict is never invoked, no response is sent and no request
\* is released in that call.
C33_ResponseNewFailureLeavesRequests ==
    host.result = "error" =>
        /\ pc = "returned"
        /\ fin = << >> /\ cur = NewRequest(0)
        /\ instance_state = ModelInstanceState(model_state)
        /\ \A i \in 1..host.request_count :
               /\ host.sent[i] = << >>
               /\ host.released[i] = 0
               /\ host.statistics[i] = << >>
        /\ ~host.batch_reported

\* TRITONBACKEND_ResponseNew failed for the second request of a batch,
\* after the response of the first was created; Execute has returned the
\* error.
C33_Witness ==
    /\ pc = "returned" /\ host.result = "error"
    /\ host.request_count = 2
    /\ Len(responses) = 1
    /\ host.sent = <<<< >>, << >>>>
    /\ host.released = <<0, 0>>


(***************************************************************************)
(* Claims about HugeCTRBuffer, checked under SpecBuffer.                   *)
(***************************************************************************)
\* size rounded up to the next multiple of 32, stated without the code's
\* remainder arithmetic
CeilTo32(size) == ((size + 31) \div 32) * 32

RECURSIVE SumCeilTo32(_)
SumCeilTo32(sizes) ==
    IF sizes = << >> THEN 0
    ELSE CeilTo32(Head(sizes)) + SumCeilTo32(Tail(sizes))

ReservesThenOneAllocate == calls.allocates = 1 /\ calls.reservesAfter = 0

\* C7: after any sequence of reserve calls on a fresh buffer followed by one
\* allocate, get_buffer_size() is the sum of the reserved byte sizes each
\* rounded up to the next multiple of 32, and the reservation list is empty.
C7_CapacityIsSumOfRounded ==
    ReservesThenOneAllocate =>
        /\ get_buffer_size(hbuf) = SumCeilTo32(calls.reserved)
        /\ hbuf.reserved_buffers_ = << >>

\* Two reservations that both need rounding (4 and 8 bytes, or 8 and 16)
\* were allocated as 64 bytes.
C7_Witness ==
    /\ ReservesThenOneAllocate
    /\ heap.state = "live"
    /\ Len(calls.reserved) = 2
    /\ \A i \in 1..2 : calls.reserved[i] % 32 # 0
    /\ get_buffer_size(hbuf) = 64
    /\ allocated(hbuf)

\* C8: allocate() on a buffer that is already allocated is a no-op:
\* get_ptr(), get_buffer_size() and allocated() are the same after the call.
C8_AllocateAgainIsNoOp ==
    [][ (calls'.allocates = calls.allocates + 1 /\ allocated(hbuf)) =>
          /\ get_ptr(hbuf') = get_ptr(hbuf)
          /\ get_buffer_size(hbuf') = get_buffer_size(hbuf)
          /\ allocated(hbuf') = allocated(hbuf) ]_vars

\* C9: allocate() is terminal: at most one memory acquisition is ever
\* performed, and the capacity fixed by the first allocate never changes.
C9_AllocateIsTerminal ==
    /\ heap.acquired <= 1
    /\ calls.allocates > 0 =>
           get_buffer_size(hbuf) = calls.firstCapacity

\* C10: reserve() after allocate() is a no-op: nothing is appended to the
\* pending reservations and no other field changes.
C10_ReserveAfterAllocateIsNoOp ==
    [][ (Len(calls'.reserved) = Len(calls.reserved) + 1 /\ allocated(hbuf)) =>
          hbuf' = hbuf ]_vars

\* C11: a buffer whose total capacity is zero acquires no memory in
\* allocate() and is afterwards treated as allocated: allocated() is true.
C11_ZeroCapacityIsAllocated ==
    (calls.allocates = 1 /\ calls.reservesAfter = 0
        /\ SumCeilTo32(calls.reserved) = 0) =>
        /\ heap.acquired = 0
        /\ allocated(hbuf)

\* C30: the memory a buffer acquired is released exactly once when the
\* buffer is destroyed, after any sequence of reserve and allocate calls:
\* every acquisition (1..heap.acquired) is among the released addresses.
\* Violated: a second allocate() overwrites ptr_ (or, with nothing reserved
\* since the first, sets total_size_in_bytes_ to 0 so that allocated() is
\* false); the destructor frees the last address at most.
C30_DestructorReleasesAcquired ==
    heap.state = "destroyed" =>
        heap.released = 1..heap.acquired

(***************************************************************************)
(* SpecDims: get_num_elements_from_dimensions called on one vector.        *)
(* calls holds the argument and the returned value (-1 before the return). *)
(***************************************************************************)
DimensionVectors ==
    UNION { [1..n -> 0..MaxDim] : n \in 0..MaxRank }

InitDims ==
    /\ \E dimensions \in DimensionVectors :
         calls = [dimensions |-> dimensions, elements |-> -1]
    /\ hbuf = NoValue
    /\ heap = NoValue
    /\ NoExec

\* elements = get_num_elements_from_dimensions(dimensions)
GetNumElements ==
    /\ calls.elements = -1
    /\ calls' = [calls EXCEPT
                   !.elements = get_num_elements_from_dimensions(calls.dimensions)]
    /\ UNCHANGED <<hbuf, heap>>
    /\ UNCHANGED execvars

NextDims == GetNumElements

SpecDims == InitDims /\ [][NextDims]_vars

\* The product of the first k extents of seq.
RECURSIVE ProductOfFirst(_, _)
ProductOfFirst(seq, k) ==
    IF k = 0 THEN 1 ELSE ProductOfFirst(seq, k - 1) * seq[k]

\* C12: get_num_elements_from_dimensions(dimensions) returns the product of
\* the extents in dimensions, and 1 for the empty sequence.
C12_ProductOfExtents ==
    calls.elements # -1 =>
        /\ calls.elements =
               ProductOfFirst(calls.dimensions, Len(calls.dimensions))
        /\ calls.dimensions = << >> => calls.elements = 1

\* The call returned 18 for the extents 2, 3, 3.
C12_Witness ==
    /\ calls.dimensions = <<2, 3, 3>>
    /\ calls.elements = 18

(***************************************************************************)
(* ModelBackend: the process-level state made by TRITONBACKEND_Initialize. *)
(* A parameter-server handle is the number of the Create_Parameter_Server  *)
(* call that returned it (1, 2, ...).                                      *)
(***************************************************************************)
\* EmbeddingTable_int32 and EmbeddingTable_int64 have no initializer and the
\* constructor does not set them: a null or a wild pointer.
IndeterminateHandles == {0, -1}

\* ModelBackend::ModelBackend
ModelBackend(supportlonglongkey, wild32, wild64) ==
    [ support_int64_key_   |-> supportlonglongkey,
      EmbeddingTable_int32 |-> wild32,
      EmbeddingTable_int64 |-> wild64 ]

\* ModelBackend::HugeCTREmbedding_backend, Create_Parameter_Server
\* returning handle
HugeCTREmbedding_backend(backend, handle) ==
    IF backend.support_int64_key_
    THEN [backend EXCEPT !.EmbeddingTable_int64 = handle]
    ELSE [backend EXCEPT !.EmbeddingTable_int32 = handle]

\* The ModelBackend a successful TRITONBACKEND_Initialize leaves behind.
InitializedBackends ==
    { HugeCTREmbedding_backend(ModelBackend(flag, w32, w64), 1) :
        flag \in BOOLEAN, w32 \in IndeterminateHandles,
        w64 \in IndeterminateHandles }

(***************************************************************************)
(* SpecInstance: the constructor of ModelInstanceState, statement by       *)
(* statement. calls is the sequence of library calls made so far, cur the  *)
(* members Embedding_cache and hugectrmodel_.                              *)
(***************************************************************************)
\* The ModelState a constructor may be given: the parsed fields, and the two
\* parameter-server pointers ModelState::Create copied from the backend.
InstanceModelStates ==
    { [ max_batch_size_      |-> batch,
        dese_num_            |-> dense,
        cat_num_             |-> cat,
        slot_num_            |-> slot,
        support_int64_key_   |-> long,
        EmbeddingTable_int32 |-> backend.EmbeddingTable_int32,
        EmbeddingTable_int64 |-> backend.EmbeddingTable_int64 ] :
        batch \in 0..MaxBatchSize, dense \in 0..MaxFeatures,
        cat \in 0..MaxFeatures, slot \in 0..MaxFeatures,
        long \in BOOLEAN, backend \in InitializedBackends }

\* Embedding_cache before Create_EmbeddingCache has assigned it.
NoCache == [created |-> FALSE, parameter_server |-> 0]

\* ModelInstanceState::Create_EmbeddingCache: the cache is made from the
\* parameter server of the model's key width.
Create_EmbeddingCache(ms) ==
    [ created |-> TRUE,
      parameter_server |-> IF SupportLongEmbeddingKey(ms)
                           THEN ms.EmbeddingTable_int64
                           ELSE ms.EmbeddingTable_int32 ]

\* ModelInstanceState::LoadHugeCTRModel: load_model is given Embedding_cache.
LoadHugeCTRModel(cache) == [loaded |-> TRUE, embedding_cache |-> cache]

\* Mutant of NextConstructorStep: the model is loaded before the cache is
\* created.
NextConstructorStep_LoadFirst(step) ==
    CASE step = "dense"      -> "cat"
      [] step = "cat"        -> "row"
      [] step = "row"        -> "prediction"
      [] step = "prediction" -> "load"
      [] step = "load"       -> "cache"
      [] step = "cache"      -> "constructed"

\* The statements of the constructor body in their order.
NextConstructorStep(step) ==
    CASE step = "dense"      -> "cat"
      [] step = "cat"        -> "row"
      [] step = "row"        -> "prediction"
      [] step = "prediction" -> "cache"
      [] step = "cache"      -> "load"
      [] step = "load"       -> "constructed"

\* The buffer member a constructor step creates.
StepBuffer(step, ms) ==
    CASE step = "dense"      -> "dense_value_buf"
      [] step = "cat"        -> IF SupportLongEmbeddingKey(ms)
                                THEN "cat_column_index_buf_int64"
                                ELSE "cat_column_index_buf_int32"
      [] step = "row"        -> "row_ptr_buf"
      [] step = "prediction" -> "prediction_buf"

BufferSteps == {"dense", "cat", "row", "prediction"}

InitInstance ==
    /\ model_state \in InstanceModelStates
    /\ instance_state =
         [ dense_value_buf            |-> NoValue,
           cat_column_index_buf_int64 |-> NoValue,
           cat_column_index_buf_int32 |-> NoValue,
           row_ptr_buf                |-> NoValue,
           prediction_buf             |-> NoValue,
           data |-> ModelInstanceState(model_state).data ]
    /\ pc = "dense"
    /\ calls = << >>
    /\ cur = [Embedding_cache |-> NoCache,
              hugectrmodel_ |-> LoadHugeCTRModel(NoCache)]
    /\ heap = [acquired |-> 0]
    /\ hbuf = NoValue
    /\ r = 0
    /\ responses = << >>
    /\ fin = << >>
    /\ host = NoValue

\* l.755-786: one buffer is created, reserved and allocated, the allocator
\* succeeding if it is called.
ConstructBuffer ==
    /\ pc \in BufferSteps
    /\ LET field == StepBuffer(pc, model_state)
           buf   == ModelInstanceState(model_state)[field]
       IN  /\ instance_state' = [instance_state EXCEPT ![field] = buf]
           /\ calls' = calls \o << <<"create", field>>, <<"reserve", field>>,
                                   <<"allocate", field>> >>
           /\ heap' = [heap EXCEPT
                         !.acquired = IF get_ptr(buf) # nullptr
                                      THEN @ + 1 ELSE @]
    /\ pc' = NextConstructorStep(pc)
    /\ UNCHANGED <<hbuf, model_state, r, responses, cur, fin, host>>

\* l.755-786: cudaMalloc / cudaMallocHost fails in allocate(): CK_CUDA_THROW_
\* throws out of the constructor. The allocator is called only for a
\* capacity that is not zero.
ConstructBufferThrows ==
    /\ pc \in BufferSteps
    /\ LET field == StepBuffer(pc, model_state)
       IN  /\ get_buffer_size(ModelInstanceState(model_state)[field]) # 0
           /\ calls' = calls \o << <<"create", field>>, <<"reserve", field>>,
                                   <<"allocate", field>> >>
    /\ pc' = "threw"
    /\ UNCHANGED <<hbuf, heap, model_state, instance_state, r, responses,
                   cur, fin, host>>

\* l.787-788: Create_EmbeddingCache()
CreateEmbeddingCache ==
    /\ pc = "cache"
    /\ cur' = [cur EXCEPT !.Embedding_cache = Create_EmbeddingCache(model_state)]
    /\ calls' = Append(calls, <<"Create_Embedding_Cache",
                                Create_EmbeddingCache(model_state).parameter_server>>)
    /\ pc' = NextConstructorStep(pc)
    /\ UNCHANGED <<hbuf, heap, model_state, instance_state, r, responses,
                   fin, host>>

\* l.789-790: LoadHugeCTRModel()
LoadModel ==
    /\ pc = "load"
    /\ cur' = [cur EXCEPT !.hugectrmodel_ = LoadHugeCTRModel(cur.Embedding_cache)]
    /\ calls' = Append(calls, <<"load_model", cur.Embedding_cache>>)
    /\ pc' = NextConstructorStep(pc)
    /\ UNCHANGED <<hbuf, heap, model_state, instance_state, r, responses,
                   fin, host>>

NextInstance ==
    \/ ConstructBuffer
    \/ ConstructBufferThrows
    \/ CreateEmbeddingCache
    \/ LoadModel

SpecInstance == InitInstance /\ [][NextInstance]_vars

(***************************************************************************)
(* Claims about the ModelInstanceState constructor, checked under          *)
(* SpecInstance.                                                           *)
(***************************************************************************)
Constructed == pc = "constructed"

\* The constructor has made the call named op on the member named field.
Called(op, field) ==
    \E i \in 1..Len(calls) : calls[i][1] = op /\ calls[i][2] = field

\* C13: for every constructed ModelInstanceState exactly one of the two
\* categorical-index buffers exists and is allocated and the other is never
\* created; which one is decided only by the model's key width, and with a
\* 64-bit key the capacity is max_batch_size x categorical_feature_count x 8
\* bytes rounded up to 32.
C13_OneCategoricalBuffer ==
    LET chosen == IF model_state.support_int64_key_
                  THEN "cat_column_index_buf_int64"
                  ELSE "cat_column_index_buf_int32"
        other  == IF model_state.support_int64_key_
                  THEN "cat_column_index_buf_int32"
                  ELSE "cat_column_index_buf_int64"
    IN  /\ ~Called("create", other)
        /\ Constructed =>
              /\ Called("create", chosen)
              /\ Called("allocate", chosen)
              /\ instance_state[chosen].reserved_buffers_ = << >>
              /\ get_buffer_size(instance_state[chosen]) # 0 =>
                     allocated(instance_state[chosen])
              /\ model_state.support_int64_key_ =>
                     get_buffer_size(instance_state.cat_column_index_buf_int64)
                       = CeilTo32(model_state.max_batch_size_
                                    * model_state.cat_num_ * 8)

\* A model with 64-bit keys, max_batch_size 2 and 3 categorical features was
\* constructed with a 64-byte buffer for its 48 bytes of keys.
C13_Witness ==
    /\ Constructed
    /\ model_state.support_int64_key_
    /\ model_state.max_batch_size_ = 2 /\ model_state.cat_num_ = 3
    /\ Called("allocate", "cat_column_index_buf_int64")
    /\ get_buffer_size(instance_state.cat_column_index_buf_int64) = 64
    /\ allocated(instance_state.cat_column_index_buf_int64)

\* C14: after construction the buffer capacities are, each rounded up to a
\* multiple of 32: dense = max_batch_size x dense_feature_count x 4,
\* categorical = max_batch_size x categorical_feature_count x key bytes,
\* row-offset = (max_batch_size x slot_count + 1) x 4, prediction =
\* max_batch_size x 4.
C14_BufferCapacities ==
    Constructed =>
      LET ms  == model_state
          cat == IF ms.support_int64_key_
                 THEN instance_state.cat_column_index_buf_int64
                 ELSE instance_state.cat_column_index_buf_int32
          key == IF ms.support_int64_key_ THEN 8 ELSE 4
      IN  /\ get_buffer_size(instance_state.dense_value_buf)
               = CeilTo32(ms.max_batch_size_ * ms.dese_num_ * 4)
          /\ get_buffer_size(cat)
               = CeilTo32(ms.max_batch_size_ * ms.cat_num_ * key)
          /\ get_buffer_size(instance_state.row_ptr_buf)
               = CeilTo32((ms.max_batch_size_ * ms.slot_num_ + 1) * 4)
          /\ get_buffer_size(instance_state.prediction_buf)
               = CeilTo32(ms.max_batch_size_ * 4)

\* max_batch_size 2 with 1 dense feature, 3 categorical features of 64-bit
\* keys and 3 slots: 32, 64, 32 and 32 bytes for 8, 48, 28 and 8.
C14_Witness ==
    /\ Constructed
    /\ model_state.max_batch_size_ = 2 /\ model_state.dese_num_ = 1
    /\ model_state.cat_num_ = 3 /\ model_state.slot_num_ = 3
    /\ model_state.support_int64_key_
    /\ get_buffer_size(instance_state.dense_value_buf) = 32
    /\ get_buffer_size(instance_state.cat_column_index_buf_int64) = 64
    /\ get_buffer_size(instance_state.row_ptr_buf) = 32
    /\ get_buffer_size(instance_state.prediction_buf) = 32

\* C15: construction follows the order buffers, embedding cache, scoring
\* handle: Create_Embedding_Cache is called only after all four buffers are
\* allocated, and load_model only after the cache exists, and it is given
\* that cache.
C15_BuffersThenCacheThenModel ==
    \A i \in 1..Len(calls) :
      /\ calls[i][1] = "Create_Embedding_Cache" =>
            \A step \in BufferSteps :
              \E j \in 1..(i - 1) :
                /\ calls[j][1] = "allocate"
                /\ calls[j][2] = StepBuffer(step, model_state)
      /\ calls[i][1] = "load_model" =>
            /\ \E j \in 1..(i - 1) : calls[j][1] = "Create_Embedding_Cache"
            /\ calls[i][2].created
            /\ calls[i][2] = cur.Embedding_cache

\* The constructor has finished: four allocations, the cache, the model
\* loaded with that cache.
C15_Witness ==
    /\ Constructed
    /\ Len(calls) = 14
    /\ calls[13][1] = "Create_Embedding_Cache"
    /\ calls[14][1] = "load_model"
    /\ cur.hugectrmodel_.embedding_cache = cur.Embedding_cache
    /\ cur.Embedding_cache.created

(***************************************************************************)
(* SpecModel: TRITONBACKEND_ModelInitialize for one model, then the        *)
(* host's TRITONBACKEND_ModelInstanceInitialize if the model loaded.       *)
(* host holds the model configuration the host serves and the outcome,     *)
(* cur the parameter read last, calls which keys were present.             *)
(* A string is a sequence of characters; cache_size_per is kept in tenths. *)
(***************************************************************************)
Chars == {"7", "x"}

Strings == UNION { [1..n -> Chars] : n \in 0..MaxStringLen }

IsDigit(c) == c = "7"

DigitValue(c) == CASE c = "7" -> 7

\* The number read from the digits of str that start at position i, acc
\* being the number read so far; reading stops at the first non-digit.
RECURSIVE ReadDigits(_, _, _)
ReadDigits(str, i, acc) ==
    IF i <= Len(str) /\ IsDigit(str[i])
    THEN ReadDigits(str, i + 1, acc * 10 + DigitValue(str[i]))
    ELSE acc

\* std::stoi: throws std::invalid_argument if no digit can be read, else the
\* number the leading digits denote; what follows them is ignored.
stoi(str) ==
    IF str = << >> \/ ~IsDigit(str[1])
    THEN [throws |-> TRUE, value |-> 0]
    ELSE [throws |-> FALSE, value |-> ReadDigits(str, 1, 0)]

\* std::atof, in tenths: 0.0 if no digit can be read, never an error.
atof(str) ==
    IF str = << >> \/ ~IsDigit(str[1])
    THEN 0
    ELSE 10 * ReadDigits(str, 1, 0)

TrueString == <<"t", "r", "u", "e">>

FalseString == <<"f", "a", "l", "s", "e">>

PathString == <<"p">>

\* The member initializers of ModelState (l.357-370).
ModelState ==
    [ max_batch_size_    |-> 64,
      slot_num_          |-> 10,
      dese_num_          |-> 50,
      cat_num_           |-> 50,
      embedding_size_    |-> 64,
      max_nnz_           |-> 3,
      cache_size_per     |-> 5,
      hugectr_config_    |-> << >>,
      support_int64_key_ |-> FALSE,
      support_gpu_cache_ |-> FALSE ]

\* The parameters ParseModelConfig looks for, in the order it does.
ParseKeys ==
    << "slots", "des_feature_num", "cat_feature_num", "embedding_vector_size",
       "max_nnz", "config", "gpucache", "gpucacheper",
       "embeddingkey_long_type" >>

\* The keys whose value goes through std::stoi.
StoiKeys ==
    { "slots", "des_feature_num", "cat_feature_num", "embedding_vector_size",
      "max_nnz" }

\* Mutant of FieldOf: slots and des_feature_num write each other's field.
FieldOf_Swapped(key) ==
    CASE key = "slots"                  -> "dese_num_"
      [] key = "des_feature_num"        -> "slot_num_"
      [] key = "cat_feature_num"        -> "cat_num_"
      [] key = "embedding_vector_size"  -> "embedding_size_"
      [] key = "max_nnz"                -> "max_nnz_"
      [] key = "config"                 -> "hugectr_config_"
      [] key = "gpucache"               -> "support_gpu_cache_"
      [] key = "gpucacheper"            -> "cache_size_per"
      [] key = "embeddingkey_long_type" -> "support_int64_key_"
      [] key = "max_batch_size"         -> "max_batch_size_"

\* The member each key is stored in.
FieldOf(key) ==
    CASE key = "slots"                  -> "slot_num_"
      [] key = "des_feature_num"        -> "dese_num_"
      [] key = "cat_feature_num"        -> "cat_num_"
      [] key = "embedding_vector_size"  -> "embedding_size_"
      [] key = "max_nnz"                -> "max_nnz_"
      [] key = "config"                 -> "hugectr_config_"
      [] key = "gpucache"               -> "support_gpu_cache_"
      [] key = "gpucacheper"            -> "cache_size_per"
      [] key = "embeddingkey_long_type" -> "support_int64_key_"
      [] key = "max_batch_size"         -> "max_batch_size_"

\* The value ParseModelConfig stores for key when its string_value is str
\* and the member held old.
StoredValue(key, str, old) ==
    CASE key \in StoiKeys      -> stoi(str).value
      [] key = "config"        -> str
      [] key = "gpucacheper"   -> atof(str)
      [] key \in {"gpucache", "embeddingkey_long_type"} ->
             IF str = TrueString THEN TRUE ELSE old

\* The string_value the host may hold for a key.
StringValues(key) ==
    CASE key \in StoiKeys \cup {"gpucacheper"} -> Strings
      [] key = "config" -> {PathString}
      [] key \in {"gpucache", "embeddingkey_long_type"} ->
             {TrueString, FalseString}

\* The key ParseModelConfig turns to after key.
KeyAfter(key) ==
    IF \E i \in 1..(Len(ParseKeys) - 1) : ParseKeys[i] = key
    THEN ParseKeys[(CHOOSE i \in 1..Len(ParseKeys) : ParseKeys[i] = key) + 1]
    ELSE "max_batch_size"

\* The tensor lists of a model configuration: one that ValidateModelConfig
\* accepts, one with an input missing, one whose output has another datatype.
Tensor(data_type, dims) == [data_type |-> data_type, dims |-> dims]

ModelConfigs ==
    LET des == Tensor("TYPE_FP32", <<-1>>)
        cat == Tensor("TYPE_UINT32", <<-1>>)
        row == Tensor("TYPE_INT32", <<-1>>)
    IN  { [input |-> <<des, cat, row>>, output |-> <<des>>],
          [input |-> <<des, cat>>,      output |-> <<des>>],
          [input |-> <<des, cat, row>>, output |-> <<row>>] }

\* ModelState::ValidateModelConfig: "ok" for nullptr.
ValidateModelConfig(config) ==
    IF Len(config.input) # 3 THEN "error"
    ELSE IF Len(config.output) # 1 THEN "error"
    ELSE IF config.input[1].data_type # config.output[1].data_type
         THEN "error"
    ELSE IF config.input[1].dims # config.output[1].dims THEN "error"
    ELSE "ok"

NoParameter == [key |-> "none", present |-> FALSE, string_value |-> << >>]

\* The keys the configuration calls numeric.
NumericKeys == StoiKeys \cup {"gpucacheper"}

\* str is a number: digits and nothing else.
WellFormedNumber(str) ==
    str # << >> /\ \A i \in 1..Len(str) : IsDigit(str[i])

InitModel ==
    /\ \E config \in ModelConfigs :
         host = [config |-> config, result |-> "running"]
    /\ model_state = NoValue
    /\ instance_state = "none"
    /\ pc = "create"
    /\ cur = NoParameter
    /\ calls = [present |-> {}, malformed |-> FALSE]
    /\ hbuf = NoValue
    /\ heap = NoValue
    /\ r = 0
    /\ responses = << >>
    /\ fin = << >>

\* l.993-1038, 1048-1049: a host call of ModelInitialize fails,
\* RETURN_IF_ERROR returns the error.
ModelInitializeFails ==
    /\ pc = "create"
    /\ pc' = "failed"
    /\ host' = [host EXCEPT !.result = "error"]
    /\ UNCHANGED <<model_state, instance_state, cur, calls>>
    /\ UNCHANGED <<hbuf, heap, r, responses, fin>>

\* l.1046-1047: ModelState::Create succeeds, the members have their
\* initializers.
ModelStateCreate ==
    /\ pc = "create"
    /\ model_state' = ModelState
    /\ pc' = "parameters"
    /\ UNCHANGED <<host, instance_state, cur, calls>>
    /\ UNCHANGED <<hbuf, heap, r, responses, fin>>

\* l.1046-1057: ModelState::Create returns an error, which is not looked at;
\* model_state is an uninitialized pointer that is handed to the host and
\* dereferenced by ParseModelConfig: undefined behaviour, nothing is known
\* of the process from here on.
ModelStateCreateFails ==
    /\ pc = "create"
    /\ pc' = "undefined"
    /\ host' = [host EXCEPT !.result = "undefined"]
    /\ UNCHANGED <<model_state, instance_state, cur, calls>>
    /\ UNCHANGED <<hbuf, heap, r, responses, fin>>

\* l.533-534: model_config_.Find("parameters"); without it no key is read.
FindParameters ==
    /\ pc = "parameters"
    /\ \E found \in BOOLEAN :
         pc' = IF found THEN ParseKeys[1] ELSE "max_batch_size"
    /\ UNCHANGED <<host, model_state, instance_state, cur, calls>>
    /\ UNCHANGED <<hbuf, heap, r, responses, fin>>

\* l.535-629: one `if (parameters.Find(key, ...))` block, the conversion of
\* the string_value returning.
ParseKey ==
    /\ \E i \in 1..Len(ParseKeys) : ParseKeys[i] = pc
    /\ \E found \in BOOLEAN :
         IF ~found
         THEN /\ cur' = [key |-> pc, present |-> FALSE, string_value |-> << >>]
              /\ UNCHANGED <<model_state, calls>>
         ELSE \E str \in StringValues(pc) :
                /\ ~(pc \in StoiKeys /\ stoi(str).throws)
                /\ cur' = [key |-> pc, present |-> TRUE, string_value |-> str]
                /\ model_state' =
                     [model_state EXCEPT
                        ![FieldOf(pc)] = StoredValue(pc, str, @)]
                /\ calls' = [calls EXCEPT
                      !.present = @ \cup {pc},
                      !.malformed = @ \/ (pc \in NumericKeys
                                            /\ ~WellFormedNumber(str))]
    /\ pc' = KeyAfter(pc)
    /\ UNCHANGED <<host, instance_state>>
    /\ UNCHANGED <<hbuf, heap, r, responses, fin>>

\* l.540, 551, 563, 575, 586: std::stoi throws std::invalid_argument;
\* nothing between it and the host catches it.
ParseKeyThrows ==
    /\ pc \in StoiKeys
    /\ \E str \in StringValues(pc) :
         /\ stoi(str).throws
         /\ cur' = [key |-> pc, present |-> TRUE, string_value |-> str]
    /\ calls' = [calls EXCEPT !.present = @ \cup {pc}, !.malformed = TRUE]
    /\ pc' = "threw"
    /\ host' = [host EXCEPT !.result = "exception"]
    /\ UNCHANGED <<model_state, instance_state>>
    /\ UNCHANGED <<hbuf, heap, r, responses, fin>>

\* l.631-633, 1061: MemberAsInt("max_batch_size") writes the member if the
\* key is there (found = -1: it is not); ParseModelConfig and
\* ModelInitialize return nullptr.
ParseMaxBatchSize ==
    /\ pc = "max_batch_size"
    /\ \E found \in -1..MaxBatchSize :
         IF found = -1
         THEN /\ cur' = [key |-> pc, present |-> FALSE, string_value |-> << >>]
              /\ UNCHANGED <<model_state, calls>>
         ELSE /\ cur' = [key |-> pc, present |-> TRUE, string_value |-> << >>]
              /\ model_state' = [model_state EXCEPT ![FieldOf(pc)] = found]
              /\ calls' = [calls EXCEPT !.present = @ \cup {pc}]
    /\ pc' = "loaded"
    /\ host' = [host EXCEPT !.result = "success"]
    /\ UNCHANGED <<instance_state>>
    /\ UNCHANGED <<hbuf, heap, r, responses, fin>>

\* l.1085-1119: the host initializes an instance of a model that loaded.
InstanceInitialize ==
    /\ pc = "loaded"
    /\ instance_state = "none"
    /\ instance_state' = "constructed"
    /\ UNCHANGED <<host, model_state, pc, cur, calls>>
    /\ UNCHANGED <<hbuf, heap, r, responses, fin>>

NextModel ==
    \/ ModelInitializeFails
    \/ ModelStateCreate
    \/ ModelStateCreateFails
    \/ FindParameters
    \/ ParseKey
    \/ ParseKeyThrows
    \/ ParseMaxBatchSize
    \/ InstanceInitialize

SpecModel == InitModel /\ [][NextModel]_vars

(***************************************************************************)
(* Claims on model load (SpecModel).                                       *)
(***************************************************************************)

\* C16: ModelInitialize fails, and no instance is constructed for the
\* model, whenever the tensor list has not exactly 3 inputs and 1 output or
\* the datatypes or the shapes of input and output differ.
\* Violated: ValidateModelConfig is never called (l.1055), such a model
\* loads and the host initializes its instances.
C16_InvalidTensorListFailsLoad ==
    ValidateModelConfig(host.config) = "error" =>
        /\ host.result # "success"
        /\ instance_state # "constructed"

\* C17: a numeric key whose string value is not a well-formed number makes
\* the model load fail, and no instance becomes usable.
\* Violated: std::stoi reads the leading digits and ignores the rest,
\* std::atof turns a string without digits into 0.0; the load succeeds.
C17_MalformedNumberFailsLoad ==
    calls.malformed =>
        /\ host.result # "success"
        /\ instance_state # "constructed"

\* The member the configuration names for each key, and its default.
ConfigField ==
    [ slots                  |-> "slot_num_",
      des_feature_num        |-> "dese_num_",
      cat_feature_num        |-> "cat_num_",
      embedding_vector_size  |-> "embedding_size_",
      max_nnz                |-> "max_nnz_",
      config                 |-> "hugectr_config_",
      gpucache               |-> "support_gpu_cache_",
      gpucacheper            |-> "cache_size_per",
      embeddingkey_long_type |-> "support_int64_key_",
      max_batch_size         |-> "max_batch_size_" ]

ConfigDefault ==
    [ slots                  |-> 10,
      des_feature_num        |-> 50,
      cat_feature_num        |-> 50,
      embedding_vector_size  |-> 64,
      max_nnz                |-> 3,
      config                 |-> << >>,
      gpucache               |-> FALSE,
      gpucacheper            |-> 5,
      embeddingkey_long_type |-> FALSE,
      max_batch_size         |-> 64 ]

\* The number a well-formed decimal string denotes.
RECURSIVE Decimal(_)
Decimal(str) ==
    IF str = << >> THEN 0
    ELSE 10 * Decimal(SubSeq(str, 1, Len(str) - 1))
           + (CASE str[Len(str)] = "7" -> 7)

\* The value the configuration gives a present key with a well-formed value.
ConfigValue(key, str) ==
    CASE key \in StoiKeys    -> Decimal(str)
      [] key = "gpucacheper" -> 10 * Decimal(str)
      [] key = "config"      -> str
      [] key \in {"gpucache", "embeddingkey_long_type"} -> str = TrueString

Parsing == pc \in DOMAIN ConfigField

AbsentKeysHoldDefault ==
    (Parsing \/ pc = "loaded") =>
        \A key \in (DOMAIN ConfigField) \ calls.present :
            model_state[ConfigField[key]] = ConfigDefault[key]

\* A step of ParseModelConfig that gets past the key pc.
ParsedKeyOnly ==
    (Parsing /\ pc' # pc /\ pc' # "threw") =>
        /\ \A key \in (DOMAIN ConfigField) \ {pc} :
               model_state'[ConfigField[key]] = model_state[ConfigField[key]]
        /\ ~cur'.present =>
               model_state'[ConfigField[pc]] = model_state[ConfigField[pc]]
        /\ (cur'.present /\ pc \in NumericKeys
              /\ WellFormedNumber(cur'.string_value)) =>
               model_state'[ConfigField[pc]] = ConfigValue(pc, cur'.string_value)
        /\ (cur'.present /\ pc \in (DOMAIN ConfigField) \ NumericKeys
              /\ pc # "max_batch_size") =>
               model_state'[ConfigField[pc]] = ConfigValue(pc, cur'.string_value)
        /\ (cur'.present /\ pc = "max_batch_size") =>
               model_state'[ConfigField[pc]] \in 0..MaxBatchSize

\* C18: after ParseModelConfig every field whose key is absent holds its
\* default (64, 10, 50, 50, 64, 3, 0.5, 32-bit keys, no gpu cache), every
\* field whose key is present holds the value parsed from that key, and
\* parsing one key changes no other field.
C18_DefaultsAndParsedValues ==
    []AbsentKeysHoldDefault /\ [][ParsedKeyOnly]_vars

C18_Witness ==
    /\ pc = "loaded"
    /\ calls.present = {"slots", "gpucacheper"}
    /\ ~calls.malformed
    /\ model_state = [ModelState EXCEPT !.slot_num_ = 77, !.cache_size_per = 70]

(***************************************************************************)
(* SpecProcess: one process of the backend. TRITONBACKEND_Initialize has   *)
(* constructed the ModelBackend (host); it creates the parameter server,   *)
(* then the host loads models (model_state, in load order) and             *)
(* initializes instances of them (instance_state). calls is the sequence   *)
(* of Create_Parameter_Server and Create_Embedding_Cache calls.            *)
(***************************************************************************)
\* l.848-950, 243-252: the ModelBackend made with the supportlonglong flag
\* of the command line; its two tables are indeterminate.
InitProcess ==
    /\ \E flag \in BOOLEAN, wild32, wild64 \in IndeterminateHandles :
         host = ModelBackend(flag, wild32, wild64)
    /\ pc = "backend"
    /\ model_state = << >>
    /\ instance_state = << >>
    /\ calls = << >>
    /\ cur = NoValue
    /\ hbuf = NoValue
    /\ heap = NoValue
    /\ r = 0
    /\ responses = << >>
    /\ fin = << >>

\* The Create_Parameter_Server calls made so far.
ParameterServers ==
    { i \in 1..Len(calls) : calls[i][1] = "Create_Parameter_Server" }

\* l.956-963: model_backend->HugeCTREmbedding_backend(), the last statement
\* of TRITONBACKEND_Initialize.
BackendInitialize ==
    /\ pc = "backend"
    /\ LET handle == Cardinality(ParameterServers) + 1
       IN  /\ host' = HugeCTREmbedding_backend(host, handle)
           /\ calls' = Append(calls, <<"Create_Parameter_Server", handle>>)
    /\ pc' = "initialized"
    /\ UNCHANGED <<model_state, instance_state, cur>>
    /\ UNCHANGED <<hbuf, heap, r, responses, fin>>

\* l.1036-1061, 419-427, 621-629: TRITONBACKEND_ModelInitialize. The
\* ModelState gets both tables of the ModelBackend, and its key width from
\* the model's own embeddingkey_long_type.
ModelInitialize ==
    /\ pc = "initialized"
    /\ Len(model_state) < MaxModels
    /\ \E embeddingkey_long_type \in BOOLEAN :
         model_state' = Append(model_state,
             [ support_int64_key_   |-> embeddingkey_long_type,
               EmbeddingTable_int32 |-> host.EmbeddingTable_int32,
               EmbeddingTable_int64 |-> host.EmbeddingTable_int64 ])
    /\ UNCHANGED <<host, instance_state, pc, cur, calls>>
    /\ UNCHANGED <<hbuf, heap, r, responses, fin>>

\* l.1085-1119, 737-788: TRITONBACKEND_ModelInstanceInitialize for a model
\* that is loaded; the constructor creates the embedding cache.
ModelInstanceInitialize ==
    /\ pc = "initialized"
    /\ Len(instance_state) < MaxInstances
    /\ \E model \in 1..Len(model_state) :
         LET cache == Create_EmbeddingCache(model_state[model])
         IN  /\ instance_state' = Append(instance_state,
                    [model |-> model, Embedding_cache |-> cache])
             /\ calls' = Append(calls,
                    <<"Create_Embedding_Cache", cache.parameter_server>>)
    /\ UNCHANGED <<host, model_state, pc, cur>>
    /\ UNCHANGED <<hbuf, heap, r, responses, fin>>

NextProcess ==
    \/ BackendInitialize
    \/ ModelInitialize
    \/ ModelInstanceInitialize

SpecProcess == InitProcess /\ [][NextProcess]_vars

(***************************************************************************)
(* Claims on the process (SpecProcess).                                    *)
(***************************************************************************)

\* C19: Create_Parameter_Server is invoked once per process, and every
\* ModelState and every embedding cache created afterwards receives the
\* handle it returned.
\* Violated: the cache of a model whose key width is not the process's is
\* created from the table that backend initialization never assigned.
C19_OneSharedParameterServer ==
    pc = "initialized" =>
        /\ Cardinality(ParameterServers) = 1
        /\ \A i \in ParameterServers :
             /\ \A m \in 1..Len(model_state) :
                    calls[i][2] \in { model_state[m].EmbeddingTable_int32,
                                      model_state[m].EmbeddingTable_int64 }
             /\ \A n \in 1..Len(instance_state) :
                    instance_state[n].Embedding_cache.parameter_server
                        = calls[i][2]

\* C20: for every instance that is constructed the key width of its model
\* is the key width of the process, so that the handle given to
\* Create_Embedding_Cache is one that backend initialization constructed.
\* Violated: nothing compares embeddingkey_long_type with supportlonglong.
C20_OneKeyWidth ==
    \A n \in 1..Len(instance_state) :
        /\ model_state[instance_state[n].model].support_int64_key_
               = host.support_int64_key_
        /\ \E i \in ParameterServers :
               instance_state[n].Embedding_cache.parameter_server = calls[i][2]

(***************************************************************************)
(* SpecFinalize: TRITONBACKEND_ModelInstanceFinalize on a constructed      *)
(* ModelInstanceState. heap holds the device and pinned addresses the      *)
(* buffers acquired, the addresses given back, and the library handles     *)
(* (embedding cache, model) that are open.                                 *)
(***************************************************************************)
\* The shared_ptr members the constructor assigns for the model ms.
BufferMembers(ms) == { StepBuffer(step, ms) : step \in BufferSteps }

\* ~HugeCTRBuffer(): the addresses it deallocates.
HugeCTRBuffer_Destructor(buf) ==
    IF allocated(buf) THEN {get_ptr(buf)} ELSE {}

\* delete instance_state: ~ModelInstanceState() has an empty body, then the
\* members are destroyed; a shared_ptr member destroys its buffer, the raw
\* pointers Embedding_cache and hugectrmodel_ have no destructor. The
\* addresses given back.
delete_ModelInstanceState(is, ms) ==
    UNION { HugeCTRBuffer_Destructor(is[member]) : member \in BufferMembers(ms) }

InitFinalize ==
    /\ model_state \in InstanceModelStates
    /\ instance_state = ModelInstanceState(model_state)
    /\ cur = [Embedding_cache |-> Create_EmbeddingCache(model_state),
              hugectrmodel_ |->
                  LoadHugeCTRModel(Create_EmbeddingCache(model_state))]
    /\ heap = [acquired |->
                   { get_ptr(instance_state[member]) :
                       member \in BufferMembers(model_state) } \ {nullptr},
               released |-> {},
               open |-> {"Embedding_cache", "hugectrmodel_"}]
    /\ pc = "constructed"
    /\ calls = << >>
    /\ hbuf = NoValue
    /\ r = 0
    /\ responses = << >>
    /\ fin = << >>
    /\ host = NoValue

\* l.1126-1127: TRITONBACKEND_ModelInstanceState fails, RETURN_IF_ERROR
\* returns before the delete.
ModelInstanceFinalizeFails ==
    /\ pc = "constructed"
    /\ pc' = "failed"
    /\ UNCHANGED <<hbuf, heap, calls, model_state, instance_state, r,
                   responses, cur, fin, host>>

\* l.1126-1138: delete instance_state, every cudaFree / cudaFreeHost
\* succeeding.
ModelInstanceFinalize ==
    /\ pc = "constructed"
    /\ heap' = [heap EXCEPT
                  !.released = @ \cup delete_ModelInstanceState(
                                          instance_state, model_state)]
    /\ pc' = "finalized"
    /\ UNCHANGED <<hbuf, calls, model_state, instance_state, r, responses,
                   cur, fin, host>>

\* l.1136, 142-147, 115-123: a cudaFree / cudaFreeHost fails, CK_CUDA_THROW_
\* throws out of the destructor of a buffer: std::terminate. The members
\* declared after member were destroyed before it.
DeallocateThrows ==
    /\ pc = "constructed"
    /\ \E step \in BufferSteps :
         LET member == StepBuffer(step, model_state)
             later  == { StepBuffer(s, model_state) :
                           s \in { t \in BufferSteps :
                                     \/ step = "dense" /\ t # "dense"
                                     \/ step = "cat"
                                          /\ t \in {"row", "prediction"}
                                     \/ step = "row" /\ t = "prediction" } }
         IN  /\ allocated(instance_state[member])
             /\ heap' = [heap EXCEPT
                    !.released = @ \cup UNION
                        { HugeCTRBuffer_Destructor(instance_state[m]) :
                            m \in later }]
    /\ pc' = "terminated"
    /\ UNCHANGED <<hbuf, calls, model_state, instance_state, r, responses,
                   cur, fin, host>>

NextFinalize ==
    \/ ModelInstanceFinalizeFails
    \/ ModelInstanceFinalize
    \/ DeallocateThrows

SpecFinalize == InitFinalize /\ [][NextFinalize]_vars

(***************************************************************************)
(* Claims on instance unload (SpecFinalize).                               *)
(***************************************************************************)

\* C21: after TRITONBACKEND_ModelInstanceFinalize every resource the
\* instance acquired is released: the memory of the buffers is freed and
\* the embedding-cache handle and the model handle are closed.
\* Violated: the destructor body is empty and the two handles are raw
\* pointers; only the buffers are given back.
C21_FinalizeReleasesEverything ==
    pc = "finalized" =>
        /\ heap.released = heap.acquired
        /\ heap.open = {}

(***************************************************************************)
(* SpecCopy: the byte counts of the copies Execute makes for one request   *)
(* that asks for its output and whose inputs come in one buffer each.      *)
(* cur holds the byte sizes the host reports for the three inputs, calls   *)
(* the copies made: the buffer member written or read, and the bytes.      *)
(***************************************************************************)
\* Models whose dense buffer has room to spare after rounding (2 features)
\* and models whose dense buffer is an exact multiple of 32 bytes (8).
CopyModelStates ==
    [ max_batch_size_    : 1..MaxBatchSize,
      dese_num_          : {2, 8},
      cat_num_           : {2},
      slot_num_          : {2},
      support_int64_key_ : BOOLEAN ]

\* The byte sizes of an input of 0..MaxElements elements.
InputByteSizes(sizeofT) == { n * sizeofT : n \in 0..MaxElements }

\* The categorical buffer member of the model's key width (l.1479-1485).
GetCatColBuffer(ms) ==
    IF SupportLongEmbeddingKey(ms)
    THEN "cat_column_index_buf_int64"
    ELSE "cat_column_index_buf_int32"

InitCopy ==
    /\ model_state \in CopyModelStates
    /\ instance_state = ModelInstanceState(model_state)
    /\ \E des \in DesByteSizes(model_state),
          cat \in InputByteSizes(IF model_state.support_int64_key_
                                 THEN 8 ELSE 4),
          row \in InputByteSizes(4) :
         cur = [des_byte_size |-> des, cat_byte_size |-> cat,
                row_byte_size |-> row, numofsample |-> -1]
    /\ pc = "validate"
    /\ calls = << >>
    /\ heap = NoValue
    /\ hbuf = NoValue
    /\ r = 0
    /\ responses = << >>
    /\ fin = << >>
    /\ host = NoValue

\* l.1405-1431: numofsample; a request over BatchSize() gets the error
\* response and the loop continues without a copy.
ValidateSampleCount ==
    /\ pc = "validate"
    /\ cur' = [cur EXCEPT
                 !.numofsample = numofsample(cur.des_byte_size, model_state)]
    /\ pc' = IF ExceedsBatchSize(cur'.numofsample, model_state)
             THEN "rejected" ELSE "stage_des"
    /\ UNCHANGED <<hbuf, heap, calls, model_state, instance_state, r,
                   responses, fin, host>>

\* The bytes a cudaMemcpy of Execute moves into or out of a buffer member.
CopyBytes(step, c, ms) ==
    CASE step = "stage_des" -> <<"dense_value_buf", c.des_byte_size>>
      [] step = "stage_cat" -> <<GetCatColBuffer(ms), c.cat_byte_size>>
      [] step = "stage_row" -> <<"row_ptr_buf", c.row_byte_size>>
      [] step = "copyout"   -> <<"prediction_buf", c.numofsample * 4>>

\* The statement after a copy; predict makes no copy of Execute's.
AfterCopy(step) ==
    CASE step = "stage_des" -> "stage_cat"
      [] step = "stage_cat" -> "stage_row"
      [] step = "stage_row" -> "copyout"
      [] step = "copyout"   -> "copied"

\* l.1471, 1479-1485, 1493, 1508: one cudaMemcpy, returning cudaSuccess.
Copy ==
    /\ pc \in {"stage_des", "stage_cat", "stage_row", "copyout"}
    /\ calls' = Append(calls, CopyBytes(pc, cur, model_state))
    /\ pc' = AfterCopy(pc)
    /\ UNCHANGED <<hbuf, heap, model_state, instance_state, r, responses,
                   cur, fin, host>>

NextCopy ==
    \/ ValidateSampleCount
    \/ Copy

SpecCopy == InitCopy /\ [][NextCopy]_vars

(***************************************************************************)
(* Claims on the copies (SpecCopy).                                        *)
(***************************************************************************)

\* C29: no copy done by Execute goes past the end of an instance buffer:
\* for a request that passed the batch-size check the bytes copied into the
\* dense, categorical and row-offset buffers and the bytes read from the
\* prediction buffer are each at most the capacity of that buffer.
\* Violated: only the dense size is tested, and only in whole samples.
C29_CopiesFitBuffers ==
    \A i \in 1..Len(calls) :
        calls[i][2] <= get_buffer_size(instance_state[calls[i][1]])

(***************************************************************************)
(* SpecStats: the batch bookkeeping of one Execute call. host holds the    *)
(* requests (the shape of each dense input), whether the model supports    *)
(* batching, the clock and what was reported; cur the locals               *)
(* min_exec_start_ns, max_exec_end_ns, total_batch_size and exec_start_ns; *)
(* fin what happened to each request the loop has left.                    *)
(***************************************************************************)
\* std::numeric_limits<uint64_t>::max(): above every reading of the clock.
numeric_limits_max == MaxClock + 1

min(a, b) == IF a < b THEN a ELSE b

max(a, b) == IF a > b THEN a ELSE b

\* l.1386-1390: total_batch_size after one request whose dense input has
\* the shape input_shape.
AddToBatchSize(total, supports_batching, input_shape) ==
    IF supports_batching /\ Len(input_shape) > 0
    THEN total + input_shape[1]
    ELSE total + 1

InitStats ==
    /\ model_state \in ModelStates
    /\ \E n \in 1..MaxRequests, supports \in BOOLEAN :
         \E shapes \in [1..n -> Dimensions] :
           host = [request_count |-> n, supports_batching |-> supports,
                   input_shape |-> shapes, clock |-> 1,
                   reported |-> [done |-> FALSE, total_batch_size |-> 0,
                                 start_ns |-> 0, end_ns |-> 0]]
    /\ cur = [min_exec_start_ns |-> numeric_limits_max,
              max_exec_end_ns |-> 0,
              total_batch_size |-> 0,
              exec_start_ns |-> 0]
    /\ r = 1
    /\ pc = "request"
    /\ fin = << >>
    /\ instance_state = NoValue
    /\ responses = << >>
    /\ calls = NoValue
    /\ heap = NoValue
    /\ hbuf = NoValue

\* What is kept of request r when the loop leaves it: end_ns is 0 when the
\* loop left it with continue.
StatsSummary(counted, end_ns) ==
    [ counted |-> counted, start_ns |-> cur.exec_start_ns, end_ns |-> end_ns ]

\* continue, or the end of the loop body
NextRequest ==
    /\ r' = r + 1
    /\ pc' = AfterContinue(r, host.request_count)

\* l.1211-1214: SET_TIMESTAMP(exec_start_ns) and the running minimum.
StartRequest ==
    /\ pc = "request"
    /\ \E now \in host.clock..MaxClock :
         /\ host' = [host EXCEPT !.clock = now]
         /\ cur' = [cur EXCEPT
                      !.exec_start_ns = now,
                      !.min_exec_start_ns = min(@, now)]
    /\ pc' = "read"
    /\ UNCHANGED <<hbuf, heap, calls, model_state, instance_state, r,
                   responses, fin>>

\* l.1213-1375: a guarded host call fails while the request is read; the
\* error response is sent and the loop continues.
ReadFails ==
    /\ pc = "read"
    /\ fin' = Append(fin, StatsSummary(FALSE, 0))
    /\ NextRequest
    /\ UNCHANGED <<hbuf, heap, calls, model_state, instance_state,
                   responses, cur, host>>

\* l.1386-1390: the request was read; it is added to total_batch_size.
CountRequest ==
    /\ pc = "read"
    /\ cur' = [cur EXCEPT
                 !.total_batch_size =
                     AddToBatchSize(@, host.supports_batching,
                                    host.input_shape[r])]
    /\ pc' = "process"
    /\ UNCHANGED <<hbuf, heap, calls, model_state, instance_state, r,
                   responses, fin, host>>

\* l.1393-1519: the request is rejected (over max_batch_size) or a host
\* call fails; the error response is sent and the loop continues.
ProcessFails ==
    /\ pc = "process"
    /\ fin' = Append(fin, StatsSummary(TRUE, 0))
    /\ NextRequest
    /\ UNCHANGED <<hbuf, heap, calls, model_state, instance_state,
                   responses, cur, host>>

\* l.1542-1551: the response is sent, SET_TIMESTAMP(exec_end_ns) and the
\* running maximum.
FinishRequest ==
    /\ pc = "process"
    /\ \E now \in host.clock..MaxClock :
         /\ host' = [host EXCEPT !.clock = now]
         /\ cur' = [cur EXCEPT !.max_exec_end_ns = max(@, now)]
         /\ fin' = Append(fin, StatsSummary(TRUE, now))
    /\ NextRequest
    /\ UNCHANGED <<hbuf, heap, calls, model_state, instance_state,
                   responses>>

\* l.1572-1577: TRITONBACKEND_ModelInstanceReportBatchStatistics
ReportStatistics ==
    /\ pc = "report"
    /\ host' = [host EXCEPT
                  !.reported = [done |-> TRUE,
                                total_batch_size |-> cur.total_batch_size,
                                start_ns |-> cur.min_exec_start_ns,
                                end_ns |-> cur.max_exec_end_ns]]
    /\ pc' = "release"
    /\ UNCHANGED <<hbuf, heap, calls, model_state, instance_state, r,
                   responses, cur, fin>>

NextStats ==
    \/ StartRequest
    \/ ReadFails
    \/ CountRequest
    \/ ProcessFails
    \/ FinishRequest
    \/ ReportStatistics

SpecStats == InitStats /\ [][NextStats]_vars

(***************************************************************************)
(* Claims on the batch statistics (SpecStats).                             *)
(***************************************************************************)
\* sample_count of request i: the whole rows of dense_feature_count floats
\* in its dense input.
RequestSampleCount(i) ==
    get_num_elements_from_dimensions(host.input_shape[i])
        \div model_state.dese_num_

RECURSIVE SumOfSampleCounts(_)
SumOfSampleCounts(n) ==
    IF n = 0 THEN 0 ELSE RequestSampleCount(n) + SumOfSampleCounts(n - 1)

\* C22: the total batch size Execute reports is the sum of sample_count
\* over the requests of the batch if the model supports batching, and the
\* number of requests otherwise.
\* Violated: a request that fails while it is read is not counted, and a
\* counted request adds the first extent of its dense shape.
C22_TotalBatchSize ==
    host.reported.done =>
        host.reported.total_batch_size =
            IF host.supports_batching
            THEN SumOfSampleCounts(host.request_count)
            ELSE host.request_count

\* C23: the reported start is the minimum start timestamp of the requests
\* of the batch and is never later than the reported end, whatever mix of
\* requests succeeded or failed.
\* Violated: a request that fails leaves the loop before exec_end_ns is
\* taken; if every request fails the reported end is 0.
C23_StartNotAfterEnd ==
    host.reported.done =>
        /\ \A i \in 1..Len(fin) : host.reported.start_ns <= fin[i].start_ns
        /\ \E i \in 1..Len(fin) : host.reported.start_ns = fin[i].start_ns
        /\ host.reported.start_ns <= host.reported.end_ns

(***************************************************************************)
(* SpecShared: the ModelStates of the loaded models, the instances the     *)
(* host initializes for them, and one Execute call per instance, the       *)
(* calls on distinct instances running concurrently. Of Execute the        *)
(* accesses to the ModelState are modelled, statement by statement:        *)
(* SupportsFirstDimBatching. model_state[m] is the ModelState of model m,  *)
(* instance_state[i] the instance i, pc[i] the position of the Execute     *)
(* call on instance i, cur[i] its local flags; host holds the batch        *)
(* property the server reports for each model, the configuration each      *)
(* model was loaded with and the value each call obtained.                 *)
(***************************************************************************)
\* The members ParseModelConfig fills.
ConfigMembers == DOMAIN ModelState

\* ModelState::ModelState (l.419-427) and ParseModelConfig: a loaded model,
\* with 32-bit or 64-bit keys.
LoadedModelStates ==
    { [ModelState EXCEPT !.support_int64_key_ = long]
        @@ [supports_batching_initialized_ |-> FALSE,
            supports_batching_ |-> FALSE] : long \in BOOLEAN }

\* The configuration held by a ModelState.
Config(ms) == [member \in ConfigMembers |-> ms[member]]

\* Mutant of StoreMember: the value lands in max_batch_size_.
StoreMember_IntoBatchSize(ms, member, value) ==
    [ms EXCEPT !.max_batch_size_ = IF value THEN 1 ELSE 0]

\* An assignment to a member of the ModelState (l.461, 462).
StoreMember(ms, member, value) == [ms EXCEPT ![member] = value]

InitShared ==
    /\ model_state \in [1..MaxModels -> LoadedModelStates]
    /\ \E flags \in [1..MaxModels -> BOOLEAN] :
         host = [flags |-> flags,
                 config |-> [m \in 1..MaxModels |-> Config(model_state[m])],
                 result |-> << >>]
    /\ instance_state = << >>
    /\ pc = << >>
    /\ cur = << >>
    /\ r = 0
    /\ responses = << >>
    /\ fin = << >>
    /\ calls = NoValue
    /\ heap = NoValue
    /\ hbuf = NoValue

Instances == 1..Len(instance_state)

\* l.1085-1119: TRITONBACKEND_ModelInstanceInitialize for model m; the
\* constructor reads the ModelState.
SharedInstanceInitialize ==
    /\ Len(instance_state) < MaxInstances
    /\ \E m \in 1..MaxModels :
         instance_state' = Append(instance_state,
             [model |-> m,
              dense_value_buf |->
                  ModelInstanceState(model_state[m]).dense_value_buf])
    /\ pc' = Append(pc, "idle")
    /\ cur' = Append(cur, FALSE)
    /\ host' = [host EXCEPT
                  !.result = Append(@, [done |-> FALSE, supports |-> FALSE])]
    /\ UNCHANGED <<hbuf, heap, calls, model_state, r, responses, fin>>

\* l.1154-1172, 457: Execute is called on instance i and comes to
\* `if (!supports_batching_initialized_)`.
ReadInitialized(i) ==
    /\ pc[i] = "idle"
    /\ pc' = [pc EXCEPT ![i] =
                IF model_state[instance_state[i].model]
                       .supports_batching_initialized_
                THEN "load" ELSE "query"]
    /\ UNCHANGED <<hbuf, heap, calls, model_state, instance_state, r,
                   responses, cur, fin, host>>

\* l.458-460: TRITONSERVER_ServerModelBatchProperties returns the flags.
BatchProperties(i) ==
    /\ pc[i] = "query"
    /\ cur' = [cur EXCEPT ![i] = host.flags[instance_state[i].model]]
    /\ pc' = [pc EXCEPT ![i] = "store"]
    /\ UNCHANGED <<hbuf, heap, calls, model_state, instance_state, r,
                   responses, fin, host>>

\* l.458-460: TRITONSERVER_ServerModelBatchProperties fails, RETURN_IF_ERROR
\* in SupportsFirstDimBatching and in Execute (l.1173).
BatchPropertiesFails(i) ==
    /\ pc[i] = "query"
    /\ pc' = [pc EXCEPT ![i] = "failed"]
    /\ UNCHANGED <<hbuf, heap, calls, model_state, instance_state, r,
                   responses, cur, fin, host>>

\* The statement after a store: the other store, or the load of l.465.
AfterStore(position, member) ==
    IF position = "store"
    THEN IF member = "supports_batching_"
         THEN "store_initialized" ELSE "store_supports"
    ELSE "load"

\* The members a call at position may store next. The two are plain
\* members written without synchronization while other calls may read
\* them: the stores of l.461 and l.462 become visible in either order.
NextStores(position) ==
    CASE position = "store" ->
             {"supports_batching_", "supports_batching_initialized_"}
      [] position = "store_initialized" -> {"supports_batching_initialized_"}
      [] position = "store_supports"    -> {"supports_batching_"}
      [] OTHER -> {}

\* l.461-462: supports_batching_ = ..., supports_batching_initialized_ =
\* true.
Store(i) ==
    /\ \E member \in NextStores(pc[i]) :
         /\ model_state' =
              [model_state EXCEPT ![instance_state[i].model] =
                  StoreMember(@, member,
                      IF member = "supports_batching_" THEN cur[i] ELSE TRUE)]
         /\ pc' = [pc EXCEPT ![i] = AfterStore(pc[i], member)]
    /\ UNCHANGED <<hbuf, heap, calls, instance_state, r, responses, cur,
                   fin, host>>

\* l.465, 1173: *supports = supports_batching_; the rest of Execute works
\* on the instance and on locals.
LoadSupports(i) ==
    /\ pc[i] = "load"
    /\ host' = [host EXCEPT !.result[i] =
                  [done |-> TRUE,
                   supports |-> model_state[instance_state[i].model]
                                    .supports_batching_]]
    /\ pc' = [pc EXCEPT ![i] = "returned"]
    /\ UNCHANGED <<hbuf, heap, calls, model_state, instance_state, r,
                   responses, cur, fin>>

NextShared ==
    \/ SharedInstanceInitialize
    \/ \E i \in Instances : ReadInitialized(i)
    \/ \E i \in Instances : BatchProperties(i)
    \/ \E i \in Instances : BatchPropertiesFails(i)
    \/ \E i \in Instances : Store(i)
    \/ \E i \in Instances : LoadSupports(i)

SpecShared == InitShared /\ [][NextShared]_vars

(***************************************************************************)
(* Claims on the shared ModelState (SpecShared).                           *)
(***************************************************************************)
\* The members of its ModelState the call on instance i reads or writes
\* next.
ReadsNext(i) ==
    CASE pc[i] = "idle" -> {"supports_batching_initialized_"}
      [] pc[i] = "load" -> {"supports_batching_"}
      [] OTHER -> {}

WritesNext(i) == NextStores(pc[i])

\* C24: Execute calls running concurrently on distinct instances read and
\* write no common mutable state, and each call gets the result it gets
\* when run alone: no call is about to write a member that another call is
\* about to read or write, and the batching flag a call obtained is the
\* one the server reports for its model.
\* Violated: two instances of one model share the ModelState, whose
\* batching flags the first calls write without synchronization.
C24_NoSharedMutableState ==
    /\ \A i, j \in Instances :
         (i # j /\ instance_state[i].model = instance_state[j].model) =>
             WritesNext(i) \cap (ReadsNext(j) \cup WritesNext(j)) = {}
    /\ \A i \in Instances :
         host.result[i].done =>
             host.result[i].supports = host.flags[instance_state[i].model]

\* C28: the configuration is immutable after model load: no instance
\* construction and no Execute call changes max_batch_size, the slot,
\* dense or categorical counts, the embedding size, max_nnz, the cache
\* ratio, the key width, the cache flag or the topology path.
C28_ConfigImmutable ==
    \A m \in 1..MaxModels : Config(model_state[m]) = host.config[m]

\* An instance was constructed and its Execute call has filled the
\* batching flags of the ModelState; the configuration is as loaded.
C28_Witness ==
    /\ \E i \in Instances :
         /\ pc[i] = "returned"
         /\ model_state[instance_state[i].model].supports_batching_initialized_
         /\ model_state[instance_state[i].model].supports_batching_
    /\ \A m \in 1..MaxModels : Config(model_state[m]) = host.config[m]

(***************************************************************************)
(* SpecBackend: TRITONBACKEND_Initialize, statement by statement, then     *)
(* TRITONBACKEND_Finalize. cur holds the locals of Initialize (the         *)
(* command line it was given, param_keys, param_values,                    *)
(* supportlonglongkey), heap the objects made with new, host the state     *)
(* pointer the server keeps for the backend (an index into heap, nullptr   *)
(* for none), calls the Create_Parameter_Server calls.                     *)
(***************************************************************************)
\* The model names a command line may carry.
ModelNames == {"dcn", "deepfm", "wdl"}

\* The topology paths it may give them.
TopologyPaths == {"a.json", "b.json"}

\* The cmdline object of the backend configuration: entries <<key, value>>
\* in document order, with distinct keys.
Cmdlines ==
    { entries \in UNION { [1..n -> (ModelNames \cup {"supportlonglong"})
                                     \X TopologyPaths] : n \in 0..MaxEntries } :
        \A i, j \in 1..Len(entries) :
            entries[i][1] = entries[j][1] => i = j }

\* l.938-947: the loop that erases every "supportlonglong" from param_keys,
\* from position it on.
RECURSIVE EraseSupportLongLong(_, _)
EraseSupportLongLong(param_keys, it) ==
    IF it > Len(param_keys)
    THEN param_keys
    ELSE IF param_keys[it] = "supportlonglong"
         THEN EraseSupportLongLong(
                  SubSeq(param_keys, 1, it - 1)
                      \o SubSeq(param_keys, it + 1, Len(param_keys)), it)
         ELSE EraseSupportLongLong(param_keys, it + 1)

\* ModelBackend::ModelBackend (l.243-252) with the lists it is given.
new_ModelBackend(modelnames, modelconfigs, supportlonglongkey) ==
    [ model_config_path  |-> modelconfigs,
      model_name         |-> modelnames,
      support_int64_key_ |-> supportlonglongkey ]

\* Mutant of ModelBackend_Create: the lists are handed on in the order they
\* came.
ModelBackend_Create_InOrder(modelnames, modelconfigs, supportlonglongkey) ==
    new_ModelBackend(modelnames, modelconfigs, supportlonglongkey)

\* ModelBackend::Create (l.234-241): new ModelBackend(triton_backend_,
\* modelconfigs, modelnames, supportlonglongkey).
ModelBackend_Create(modelnames, modelconfigs, supportlonglongkey) ==
    new_ModelBackend(modelconfigs, modelnames, supportlonglongkey)

\* An object made with new.
Object(type, value) ==
    [type |-> type, value |-> value, stored |-> FALSE, freed_as |-> NoValue]

\* TRITONBACKEND_BackendSetState(backend, object at address)
BackendSetState(objects, address) ==
    [objects EXCEPT ![address].stored = TRUE]

InitBackend ==
    /\ \E cmdline \in Cmdlines, found \in BOOLEAN :
         /\ ~found => cmdline = << >>
         /\ cur = [cmdline |-> cmdline, found |-> found,
                   param_keys |-> << >>, param_values |-> << >>,
                   supportlonglongkey |-> FALSE, i |-> 1]
    /\ heap = << >>
    /\ host = [state |-> nullptr]
    /\ calls = << >>
    /\ pc = "start"
    /\ model_state = NoValue
    /\ instance_state = NoValue
    /\ hbuf = NoValue
    /\ r = 0
    /\ responses = << >>
    /\ fin = << >>

\* The position after the range-for of l.924 has handled i - 1 keys.
AfterMember(i, param_keys) ==
    IF i <= Len(param_keys) THEN "members" ELSE "erase"

\* l.910-923: new std::string("backend state") is set as the backend state;
\* the configuration is parsed and, if it has a cmdline, its member names
\* are read into param_keys.
SetStringState ==
    /\ pc = "start"
    /\ heap' = BackendSetState(
                   Append(heap, Object("std::string", "backend state")),
                   Len(heap) + 1)
    /\ host' = [host EXCEPT !.state = Len(heap) + 1]
    /\ LET keys == IF cur.found
                   THEN [k \in 1..Len(cur.cmdline) |-> cur.cmdline[k][1]]
                   ELSE << >>
       IN  /\ cur' = [cur EXCEPT !.param_keys = keys]
           /\ pc' = AfterMember(1, keys)
    /\ UNCHANGED <<hbuf, calls, model_state, instance_state, r, responses,
                   fin>>

\* l.924-935: one pass of the range-for over param_keys.
ReadMember ==
    /\ pc = "members"
    /\ cur' = IF cur.param_keys[cur.i] # "supportlonglong"
              THEN [cur EXCEPT
                      !.param_values = Append(@, cur.cmdline[cur.i][2]),
                      !.i = @ + 1]
              ELSE [cur EXCEPT !.supportlonglongkey = TRUE, !.i = @ + 1]
    /\ pc' = AfterMember(cur.i + 1, cur.param_keys)
    /\ UNCHANGED <<hbuf, heap, calls, model_state, instance_state, r,
                   responses, fin, host>>

\* l.928-929: the value of the member is not a string, MemberAsString
\* fails and RETURN_IF_ERROR leaves Initialize.
MemberAsStringFails ==
    /\ pc = "members"
    /\ cur.param_keys[cur.i] # "supportlonglong"
    /\ pc' = "failed"
    /\ UNCHANGED <<hbuf, heap, calls, model_state, instance_state, r,
                   responses, cur, fin, host>>

\* l.937-947: "supportlonglong" is erased from param_keys.
EraseKeys ==
    /\ pc = "erase"
    /\ cur' = [cur EXCEPT !.param_keys = EraseSupportLongLong(@, 1)]
    /\ pc' = "create"
    /\ UNCHANGED <<hbuf, heap, calls, model_state, instance_state, r,
                   responses, fin, host>>

\* l.949-952: ModelBackend::Create(backend, &model_backend, param_values,
\* param_keys, supportlonglongkey); the ModelBackend is set as the backend
\* state.
CreateModelBackend ==
    /\ pc = "create"
    /\ heap' = BackendSetState(
                   Append(heap,
                       Object("ModelBackend",
                           ModelBackend_Create(cur.param_values,
                               cur.param_keys, cur.supportlonglongkey))),
                   Len(heap) + 1)
    /\ host' = [host EXCEPT !.state = Len(heap) + 1]
    /\ pc' = "embedding"
    /\ UNCHANGED <<hbuf, calls, model_state, instance_state, r, responses,
                   cur, fin>>

\* l.960, 256-272: model_backend->HugeCTREmbedding_backend() calls
\* Create_Parameter_Server(type, model_config_path, model_name) for the key
\* width of the command line; Initialize returns success.
CreateParameterServer ==
    /\ pc = "embedding"
    /\ LET backend == heap[host.state].value
       IN  calls' = Append(calls,
               [key |-> IF backend.support_int64_key_
                        THEN "long long" ELSE "unsigned int",
                model_config_path |-> backend.model_config_path,
                model_name |-> backend.model_name])
    /\ pc' = "initialized"
    /\ UNCHANGED <<hbuf, heap, model_state, instance_state, r, responses,
                   cur, fin, host>>

\* l.969-984: TRITONBACKEND_Finalize takes the backend state, casts it to
\* std::string*, builds the log message from *state and deletes it. If the
\* object is not a std::string both are undefined behaviour: the process
\* dies in one of them, or the object is freed as a std::string.
Finalize ==
    /\ pc = "initialized"
    /\ \/ /\ heap' = [heap EXCEPT ![host.state].freed_as = "std::string"]
          /\ pc' = "finalized"
       \/ /\ heap[host.state].type # "std::string"
          /\ heap' = heap
          /\ pc' = "crashed"
    /\ UNCHANGED <<hbuf, calls, model_state, instance_state, r, responses,
                   cur, fin, host>>

NextBackend ==
    \/ SetStringState
    \/ ReadMember
    \/ MemberAsStringFails
    \/ EraseKeys
    \/ CreateModelBackend
    \/ CreateParameterServer
    \/ Finalize

SpecBackend == InitBackend /\ [][NextBackend]_vars

(***************************************************************************)
(* Claims on TRITONBACKEND_Initialize and TRITONBACKEND_Finalize           *)
(* (SpecBackend).                                                          *)
(***************************************************************************)
\* The entries of the command line that name a model, in their order.
ModelEntries ==
    SelectSeq(cur.cmdline, LAMBDA entry : entry[1] # "supportlonglong")

\* C35: TRITONBACKEND_Initialize creates the parameter server with two
\* lists of equal length that are aligned by index: the i-th topology path
\* is the value and the i-th model name is the key of the same command-line
\* entry, and the supportlonglong entry appears in neither list, wherever
\* it stands among the entries.
C35_AlignedLists ==
    \A c \in 1..Len(calls) :
        /\ Len(calls[c].model_config_path) = Len(calls[c].model_name)
        /\ Len(calls[c].model_name) = Len(ModelEntries)
        /\ \A i \in 1..Len(ModelEntries) :
               /\ calls[c].model_name[i] = ModelEntries[i][1]
               /\ calls[c].model_config_path[i] = ModelEntries[i][2]
        /\ \A i \in 1..Len(calls[c].model_name) :
               calls[c].model_name[i] # "supportlonglong"

\* The parameter server was created from a command line whose second of
\* three entries is supportlonglong: two names and their two paths.
C35_Witness ==
    /\ Len(calls) = 1
    /\ Len(cur.cmdline) = 3
    /\ cur.cmdline[2][1] = "supportlonglong"
    /\ cur.cmdline[1][2] # cur.cmdline[3][2]
    /\ calls[1].key = "long long"
    /\ calls[1].model_name = <<cur.cmdline[1][1], cur.cmdline[3][1]>>
    /\ calls[1].model_config_path = <<cur.cmdline[1][2], cur.cmdline[3][2]>>

\* C36: backend state is freed correctly over Initialize then Finalize:
\* every object that TRITONBACKEND_Initialize stored as backend state is
\* freed by TRITONBACKEND_Finalize, and the object Finalize frees is the
\* one currently stored as backend state, handled as the type it was
\* created with.
\* Violated: the std::string set first is never freed, and the
\* ModelBackend set after it is read and deleted as a std::string.
C36_BackendStateFreed ==
    pc \in {"finalized", "crashed"} =>
        \A address \in 1..Len(heap) :
            /\ heap[address].stored =>
                   heap[address].freed_as = heap[address].type
            /\ heap[address].freed_as # NoValue =>
                   /\ address = host.state
                   /\ heap[address].freed_as = heap[address].type

====
